---- MODULE Spec2Model ----
(***************************************************************************)
(* Query-time retrieval and response shaping of the financial-literacy     *)
(* chatbot (src/streamlit/s_app.py): rewrite_query, detect_query_intent    *)
(* and run_rag_chain.  Python str values are TLA+ strings; Len, \o and      *)
(* SubSeq are Python's len, + and slicing.  An optional value (None or a    *)
(* value) is the empty or the one-element sequence.                        *)
(***************************************************************************)
EXTENDS Integers, Sequences, FiniteSets, TLC

\* run_rag_chain
VARIABLES query, rag_mode, db, pc, expanded_query, intent, method_i, called,
          docs, doc_i, context_parts, total_chars, context, sources, prompt,
          result

\* the source list of the chat page
VARIABLES metadata, source_pc, source_name, article, from_source

\* update_chunk_file
VARIABLES chunk_name, chunk_file, chunk_pc, article_info, lines, line_i,
          chunk_returns, chunk_after

\* create_qa_pairs_from_chunk
VARIABLES chunk, qa_filename, qa_pc, cleaned_text, sentences, topic,
          response_text, qa_pairs

\* one session of the app
VARIABLES session, event, page_pc, now, at_prompt, full_response, response_stream,
          handler_mode, rag_calls, worker_pc, stop_animation, thinking_placeholder,
          message_placeholder

\* get_database and its callers
VARIABLES _db, _embeddings, call_pc, calls, built, returned

\* process_jsonl_file
VARIABLES records, records_read, records_before, record_i, redundancy_pc, jsonl_file

\* save_test_results, save_feedback, save_general_feedback
VARIABLES files, save_pc, save_call, result_data, all_data, found, seen, clock,
          rewrites, last_writer

rag_vars == <<query, rag_mode, db, pc, expanded_query, intent, method_i, called,
              docs, doc_i, context_parts, total_chars, context, sources, prompt,
              result>>

source_vars == <<metadata, source_pc, source_name, article, from_source>>

chunk_vars == <<chunk_name, chunk_file, chunk_pc, article_info, lines, line_i,
                chunk_returns, chunk_after>>

convert_vars == <<chunk, qa_filename, qa_pc, cleaned_text, sentences, topic,
                  response_text, qa_pairs>>

save_vars == <<files, save_pc, save_call, result_data, all_data, found, seen, clock,
               rewrites, last_writer>>

session_vars == <<session, event, page_pc, now, at_prompt, full_response, response_stream,
                  handler_mode, rag_calls, worker_pc, stop_animation,
                  thinking_placeholder, message_placeholder>>

database_vars == <<_db, _embeddings, call_pc, calls, built, returned>>

redundancy_vars == <<records, records_read, records_before, record_i, redundancy_pc,
                     jsonl_file>>

tool_vars == <<database_vars, redundancy_vars>>

other_than_rag == <<source_vars, chunk_vars, convert_vars, save_vars, session_vars, tool_vars>>
other_than_sources == <<rag_vars, chunk_vars, convert_vars, save_vars, session_vars, tool_vars>>
other_than_chunk == <<rag_vars, source_vars, convert_vars, save_vars, session_vars, tool_vars>>
other_than_convert == <<rag_vars, source_vars, chunk_vars, save_vars, session_vars, tool_vars>>
other_than_save == <<rag_vars, source_vars, chunk_vars, convert_vars, session_vars, tool_vars>>
other_than_session == <<rag_vars, source_vars, chunk_vars, convert_vars, save_vars, tool_vars>>
other_than_database == <<rag_vars, source_vars, chunk_vars, convert_vars, save_vars,
                         session_vars, redundancy_vars>>
other_than_redundancy == <<rag_vars, source_vars, chunk_vars, convert_vars, save_vars,
                           session_vars, database_vars>>

vars == <<rag_vars, source_vars, chunk_vars, convert_vars, save_vars, session_vars, tool_vars>>

None == <<>>
Some(v) == <<v>>

(***************************************************************************)
(* Python str helpers                                                      *)
(***************************************************************************)
Upper == <<"A","B","C","D","E","F","G","H","I","J","K","L","M",
           "N","O","P","Q","R","S","T","U","V","W","X","Y","Z">>
LowerOf == <<"a","b","c","d","e","f","g","h","i","j","k","l","m",
             "n","o","p","q","r","s","t","u","v","w","x","y","z">>

\* str.lower() on one character
LowerChar(c) ==
    IF \E k \in 1..26 : Upper[k] = c
    THEN LowerOf[CHOOSE k \in 1..26 : Upper[k] = c]
    ELSE c

\* str.lower(), character by character (the string is halved to keep the
\* evaluation shallow)
RECURSIVE Lower(_)
Lower(s) ==
    IF Len(s) <= 1 THEN LowerChar(s)
    ELSE LET h == Len(s) \div 2
         IN  Lower(SubSeq(s, 1, h)) \o Lower(SubSeq(s, h + 1, Len(s)))

\* s[i-1] of Python, "" past the end
CharAt(s, i) == IF i >= 1 /\ i <= Len(s) THEN SubSeq(s, i, i) ELSE ""

\* s.startswith(p, i-1)
PrefixAt(p, s, i) == i + Len(p) - 1 <= Len(s) /\ SubSeq(s, i, i + Len(p) - 1) = p

\* p in s
Contains(p, s) == \E i \in 1..(Len(s) + 1) : PrefixAt(p, s, i)

\* s.startswith(p)
StartsWith(s, p) == PrefixAt(p, s, 1)

\* sep.join(parts)
RECURSIVE Join(_, _)
Join(sep, parts) ==
    IF parts = <<>> THEN ""
    ELSE IF Len(parts) = 1 THEN parts[1]
    ELSE parts[1] \o sep \o Join(sep, Tail(parts))

Digits == <<"0","1","2","3","4","5","6","7","8","9">>
IsDigit(c) == \E k \in 1..10 : Digits[k] = c
DigitVal(c) == (CHOOSE k \in 1..10 : Digits[k] = c) - 1
IsSpace(c) == c \in {" ", "\t", "\n", "\r", "\f"}

\* int(s) for a run of decimal digits
RECURSIVE int(_)
int(s) ==
    IF s = "" THEN 0
    ELSE 10 * int(SubSeq(s, 1, Len(s) - 1)) + DigitVal(SubSeq(s, Len(s), Len(s)))

\* str(n) of a natural number, as the f-string renders it
str(n) == ToString(n)

(***************************************************************************)
(* rewrite_query                                                           *)
(***************************************************************************)
\* the "save" and "emergency" expansions exchanged
financial_keywords_swapped == <<
    <<"save", "emergency fund savings buffer">>,
    <<"budget", "budgeting financial planning spending">>,
    <<"debt", "debt management loan credit card">>,
    <<"invest", "investment returns stocks bonds">>,
    <<"retire", "retirement planning EPF KWSP">>,
    <<"emergency", "saving tips money management">>,
    <<"mistake", "common mistakes errors avoid financial">>,
    <<"scam", "scam fraud prevention red flags">>,
    <<"insurance", "insurance medical coverage protection">>,
    <<"tax", "income tax filing LHDN deduction">> >>

financial_keywords == <<
    <<"save", "saving tips money management">>,
    <<"budget", "budgeting financial planning spending">>,
    <<"debt", "debt management loan credit card">>,
    <<"invest", "investment returns stocks bonds">>,
    <<"retire", "retirement planning EPF KWSP">>,
    <<"emergency", "emergency fund savings buffer">>,
    <<"mistake", "common mistakes errors avoid financial">>,
    <<"scam", "scam fraud prevention red flags">>,
    <<"insurance", "insurance medical coverage protection">>,
    <<"tax", "income tax filing LHDN deduction">> >>

\* the for loop over financial_keywords.items(), starting at entry k
RECURSIVE rewrite_from(_, _, _)
rewrite_from(q, query_lower, k) ==
    IF k > Len(financial_keywords) THEN q
    ELSE IF Contains(financial_keywords[k][1], query_lower)
         THEN q \o " " \o financial_keywords[k][2]
         ELSE rewrite_from(q, query_lower, k + 1)

\* the triggers matched against the query as typed, not lowercased
rewrite_query_no_lower(q) == rewrite_from(q, q, 1)

rewrite_query(q) == rewrite_from(q, Lower(q), 1)

(***************************************************************************)
(* detect_query_intent                                                     *)
(***************************************************************************)
question_starts == <<"what", "how", "why", "when", "where", "can", "should",
                     "is", "are", "do", "does">>

list_patterns == <<
    <<"mistakes", <<"mistake", "error", "wrong", "avoid", "don't", "never">> >>,
    <<"tips", <<"tip", "advice", "suggestion", "recommend">> >>,
    <<"ways", <<"way", "method", "how to">> >>,
    <<"steps", <<"step", "process", "procedure">> >>,
    <<"reasons", <<"reason", "why", "cause">> >>,
    <<"habits", <<"habit", "practice", "routine">> >> >>

count_nouns == <<"mistake", "tip", "way", "step", "reason", "habit", "thing", "point">>

word_nums == << <<"one", 1>>, <<"two", 2>>, <<"three", 3>>, <<"four", 4>>,
                <<"five", 5>>, <<"six", 6>>, <<"seven", 7>>, <<"eight", 8>>,
                <<"nine", 9>>, <<"ten", 10>> >>

\* any(p in query_lower for p in patterns)
AnyPattern(patterns, query_lower) ==
    \E k \in 1..Len(patterns) : Contains(patterns[k], query_lower)

\* the last matching category instead of the first
RECURSIVE list_type_last(_, _)
list_type_last(query_lower, k) ==
    IF k > Len(list_patterns) THEN None
    ELSE LET later == list_type_last(query_lower, k + 1)
         IN  IF later # None THEN later
             ELSE IF AnyPattern(list_patterns[k][2], query_lower)
                  THEN Some(list_patterns[k][1])
                  ELSE None

\* the for loop over list_patterns.items(), starting at entry k
RECURSIVE list_type_from(_, _)
list_type_from(query_lower, k) ==
    IF k > Len(list_patterns) THEN None
    ELSE IF AnyPattern(list_patterns[k][2], query_lower)
         THEN Some(list_patterns[k][1])
         ELSE list_type_from(query_lower, k + 1)

AllDigits(s, i, j) == \A k \in i..j : IsDigit(CharAt(s, k))
AllSpaces(s, i, j) == \A k \in i..j : IsSpace(CharAt(s, k))
NounAt(s, k) == \E n \in 1..Len(count_nouns) : PrefixAt(count_nouns[n], s, k)

\* (\d+)\s*(mistake|...) matches at i with group 1 = s[i..j]
MatchesAt(s, i, j) ==
    /\ i <= j
    /\ AllDigits(s, i, j)
    /\ \E k \in (j + 1)..(Len(s) + 1) : AllSpaces(s, j + 1, k - 1) /\ NounAt(s, k)

\* re.search(...): the leftmost start, and from it the longest digit group
\* (\d+ is greedy); None when nothing matches, else group(1)
count_match(s) ==
    LET starts == {i \in 1..Len(s) : \E j \in i..Len(s) : MatchesAt(s, i, j)}
    IN  IF starts = {} THEN None
        ELSE LET i == CHOOSE a \in starts : \A b \in starts : a <= b
                 ends == {j \in i..Len(s) : MatchesAt(s, i, j)}
                 j == CHOOSE a \in ends : \A b \in ends : a >= b
             IN  Some(SubSeq(s, i, j))

\* the for loop over word_nums.items(), starting at entry k
RECURSIVE word_count_from(_, _)
word_count_from(query_lower, k) ==
    IF k > Len(word_nums) THEN None
    ELSE IF Contains(word_nums[k][1], query_lower)
         THEN Some(word_nums[k][2])
         ELSE word_count_from(query_lower, k + 1)

\* spelled-out numbers tried before the digit pattern
detect_count_words_first(query_lower) ==
    LET w == word_count_from(query_lower, 1)
        m == count_match(query_lower)
    IN  IF w # None THEN w ELSE IF m # None THEN Some(int(m[1])) ELSE None

detect_count(query_lower) ==
    LET m == count_match(query_lower)
    IN  IF m # None THEN Some(int(m[1])) ELSE word_count_from(query_lower, 1)

is_question(q, query_lower) ==
    \/ Contains("?", q)
    \/ \E k \in 1..Len(question_starts) : StartsWith(query_lower, question_starts[k])

detect_query_intent(q) ==
    LET query_lower == Lower(q)
    IN  [list_type |-> list_type_from(query_lower, 1),
         count |-> detect_count(query_lower),
         is_question |-> is_question(q, query_lower)]

(***************************************************************************)
(* Retrieved documents and the retriever (duck-typed, s_app.py:419-439)    *)
(***************************************************************************)
\* s * n
RECURSIVE Rep(_, _)
Rep(s, n) ==
    IF n = 0 THEN ""
    ELSE IF n % 2 = 0 THEN LET h == Rep(s, n \div 2) IN h \o h
    ELSE s \o Rep(s, n - 1)

EmptyDict == [k \in {} |-> ""]

\* a LangChain Document: attributes page_content and metadata
Document(text, source) ==
    [is_dict |-> FALSE, attr_page_content |-> Some(text), attr_content |-> None,
     key_page_content |-> None, attr_metadata |-> Some([source |-> source])]

\* an object exposing content and metadata, no page_content
ContentObject(text, source) ==
    [is_dict |-> FALSE, attr_page_content |-> None, attr_content |-> Some(text),
     key_page_content |-> None, attr_metadata |-> Some([source |-> source])]

\* a plain dict {"page_content": text, "metadata": {...}}: keys, no attributes
DictDoc(text) ==
    [is_dict |-> TRUE, attr_page_content |-> None, attr_content |-> None,
     key_page_content |-> Some(text), attr_metadata |-> None]

\* x or y on optional strings (None and "" are falsy)
Truthy(o) == o # None /\ o[1] # ""
Or(a, b) == IF Truthy(a) THEN a ELSE b

\* s_app.py:439
doc_content(doc) ==
    Or(Or(doc.attr_page_content, doc.attr_content),
       IF doc.is_dict THEN doc.key_page_content ELSE None)

\* s_app.py:454, one element of the comprehension
source_entry(doc) ==
    [content |-> IF doc.attr_page_content # None THEN doc.attr_page_content[1] ELSE "",
     metadata |-> IF doc.attr_metadata # None THEN doc.attr_metadata[1] ELSE EmptyDict]

\* s_app.py:454
RECURSIVE build_sources(_)
build_sources(ds) ==
    IF ds = <<>> THEN <<>> ELSE <<source_entry(ds[1])>> \o build_sources(Tail(ds))

METHODS == <<"get_relevant_documents", "get_retrievals", "retrieve",
             "get_documents", "invoke">>

max_chars == 1500
min_remaining == 200

(***************************************************************************)
(* Prompt templates (s_app.py:456-548)                                     *)
(***************************************************************************)
\* s_app.py:457-459
count_instruction(count) ==
    IF count # None /\ count[1] # 0
    THEN "The user asked for exactly " \o str(count[1])
         \o " items. You MUST provide exactly " \o str(count[1])
         \o " items, no more, no less."
    ELSE ""

\* s_app.py:461-471
list_format(list_type) ==
    IF list_type = Some("mistakes") THEN "mistakes (things to AVOID)"
    ELSE IF list_type = Some("steps") THEN "steps (in order)"
    ELSE IF list_type = Some("reasons") THEN "reasons"
    ELSE IF list_type = Some("ways") THEN "ways"
    ELSE IF list_type = Some("habits") THEN "habits"
    ELSE "tips"

strict_head ==
    "You are a friendly financial literacy assistant helping Malaysian youth with money management.\n"
    \o "\n"
    \o "STRICT RULES:\n"
    \o "1. Answer ONLY using information from the Context below\n"
    \o "2. Do NOT make up information not in the Context\n"
    \o "3. Keep each point BRIEF (1-2 sentences max per point)\n"
    \o "4. Use Malaysian context (RM, EPF/KWSP)\n"
    \o "\n"

strict_tail ==
    "\n"
    \o "\n"
    \o "RESPONSE FORMAT:\n"
    \o "- One sentence introduction\n"
    \o "- List multiple points concisely:\n"
    \o "  1. **[Title]**: Brief explanation (1-2 sentences)\n"
    \o "  2. **[Title]**: Brief explanation (1-2 sentences)\n"
    \o "  3. **[Title]**: Brief explanation (1-2 sentences)\n"
    \o "- One practical tip at the end\n"
    \o "\n"
    \o "IMPORTANT: Keep each point SHORT. Cover MORE points rather than explaining one point in detail.\n"
    \o "\n"
    \o "Answer:"

strict_prompt(ci, ctx, q) ==
    strict_head \o ci \o "\n\nContext:\n" \o ctx \o "\n\nUser Question: " \o q
    \o strict_tail

hybrid_head ==
    "You are a financial literacy assistant for Malaysian youth.\n"
    \o "\n"
    \o "RULES:\n"
    \o "1. Use the Context below as your PRIMARY source\n"
    \o "2. You may add supplementary info, label it \"[Supplementary]\"\n"
    \o "3. Keep each point BRIEF (1-2 sentences)\n"
    \o "4. Use Malaysian context (RM, EPF/KWSP)\n"
    \o "\n"

hybrid_tail ==
    "\n"
    \o "\n"
    \o "RESPONSE FORMAT:\n"
    \o "- Brief introduction\n"
    \o "- List points concisely:\n"
    \o "  1. **[Title]**: Brief explanation\n"
    \o "  2. **[Title]**: Brief explanation\n"
    \o "- One practical tip\n"
    \o "\n"
    \o "IMPORTANT: Cover MORE points briefly rather than few points in detail.\n"
    \o "\n"
    \o "Answer:"

hybrid_prompt(ci, ctx, q) ==
    hybrid_head \o ci \o "\n\nContext:\n" \o ctx \o "\n\nQuestion: " \o q
    \o hybrid_tail

model_only_prompt(ci, lf, q) ==
    "You are a financial literacy assistant for Malaysian youth.\n"
    \o "\n"
    \o ci \o "\n"
    \o "\n"
    \o "Question: " \o q \o "\n"
    \o "\n"
    \o "RULES:\n"
    \o "1. Provide thorough, educational explanations (200-250 words)\n"
    \o "2. Use Malaysian context (RM, EPF/KWSP) where possible\n"
    \o "3. If listing " \o lf \o ", explain WHY each point matters\n"
    \o "4. Include practical examples with specific amounts\n"
    \o "5. If unsure, acknowledge it but still provide helpful guidance\n"
    \o "\n"
    \o "Answer:"

\* s_app.py:474-550: the prompt handed to llm.stream
render_prompt(mode, ci, lf, ctx, q) ==
    IF mode = "Strict" THEN strict_prompt(ci, ctx, q)
    ELSE IF mode = "Hybrid" THEN hybrid_prompt(ci, ctx, q)
    ELSE model_only_prompt(ci, lf, q)

\* the sources never cleared
returned_sources_kept(mode, srcs) == srcs

\* s_app.py:552-553: sources survive in Strict and Hybrid only
returned_sources(mode, srcs) ==
    IF mode = "Strict" \/ mode = "Hybrid" THEN srcs ELSE <<>>

(***************************************************************************)
(* Inputs of run_rag_chain: the query, rag_mode and db (whose retriever    *)
(* exposes some of METHODS, each raising, returning None or returning a    *)
(* list of documents)                                                      *)
(***************************************************************************)
MaxDocs == 3
MaxTokens == 3

DocPool ==
    { Document("", "empty.jsonl"),
      DictDoc(Rep("d", 100)),
      ContentObject(Rep("o", 201), "notes.jsonl"),
      Document(Rep("a", 500), "budgeting_rule.jsonl"),
      Document(Rep("b", 750), "first_salary_tips.jsonl"),
      Document(Rep("c", 1299), "fomo_shopping.jsonl"),
      Document(Rep("e", 1300), "pay_yourself_first.jsonl"),
      Document(Rep("f", 1501), "master_your_finance.jsonl") }

DocLists == UNION {[1..n -> DocPool] : n \in 0..MaxDocs}

Absent == [status |-> "absent", docs |-> None]
Raises == [status |-> "raises", docs |-> None]
ReturnsNone == [status |-> "returns", docs |-> None]
Returns(ds) == [status |-> "returns", docs |-> Some(ds)]

\* the retriever of langchain's vector store: every method it has returns ds
StoreRetriever(ds) ==
    [m \in 1..Len(METHODS) |-> IF m \in {1, 5} THEN Returns(ds) ELSE Absent]

\* what method m returns in a retriever whose methods answer differently
MethodDocs(m) == <<Document(Rep("m", 10 * m), METHODS[m])>>

AnyRetrievers ==
    { [m \in 1..Len(METHODS) |-> CASE f[m] = 1 -> Absent
                                   [] f[m] = 2 -> Raises
                                   [] f[m] = 3 -> ReturnsNone
                                   [] OTHER -> Returns(MethodDocs(m))] :
      f \in [1..Len(METHODS) -> 1..4] }

Modes == {"Strict", "Hybrid", "Model-only", "Expert"}

ExampleQueries ==
    { "How can I save money?",
      "What are 5 mistakes to avoid?",
      "three tips for saving",
      "Give me 0 tips",
      "top 10 ways to invest",
      "hello" }

Tokens == {" ", "5", "0", "12", "tips", "Mistake", "three", "someone", "save",
           "Budget", "?"}

RECURSIVE Concat(_)
Concat(ts) == IF ts = <<>> THEN "" ELSE ts[1] \o Concat(Tail(ts))

TokenQueries == {Concat(ts) : ts \in UNION {[1..n -> Tokens] : n \in 0..MaxTokens}}

\* no source list is being shown
SourcesIdle ==
    /\ metadata = <<>>
    /\ source_pc = "idle"
    /\ source_name = None
    /\ article = None
    /\ from_source = None

\* no chunk file is being fixed
ChunkIdle ==
    /\ chunk_name = ""
    /\ chunk_file = <<>>
    /\ chunk_pc = "idle"
    /\ article_info = None
    /\ lines = <<>>
    /\ line_i = 0
    /\ chunk_returns = <<>>
    /\ chunk_after = <<>>

\* no chunk is being converted
ConvertIdle ==
    /\ chunk = [text |-> None]
    /\ qa_filename = ""
    /\ qa_pc = "idle"
    /\ cleaned_text = None
    /\ sentences = <<>>
    /\ topic = None
    /\ response_text = None
    /\ qa_pairs = None

\* the sessions whose saves are followed
Savers == {"u1", "u2"}

\* no save is under way and no file is there
SaveIdle ==
    /\ files = <<>>
    /\ save_pc = [p \in Savers |-> "idle"]
    /\ save_call = [p \in Savers |-> None]
    /\ result_data = [p \in Savers |-> None]
    /\ all_data = [p \in Savers |-> None]
    /\ found = [p \in Savers |-> None]
    /\ seen = [p \in Savers |-> None]
    /\ clock = 0
    /\ rewrites = <<>>
    /\ last_writer = <<>>

\* no session is open
SessionIdle ==
    /\ session = <<>>
    /\ event = <<>>
    /\ page_pc = "closed"
    /\ now = 0
    /\ at_prompt = None
    /\ full_response = ""
    /\ response_stream = None
    /\ handler_mode = None
    /\ rag_calls = 0
    /\ worker_pc = "none"
    /\ stop_animation = FALSE
    /\ thinking_placeholder = ""
    /\ message_placeholder = ""

\* the processes that call get_database
Callers == {"t1", "t2"}

\* the server process has not been asked for the database
DatabaseIdle ==
    /\ _db = None
    /\ _embeddings = None
    /\ call_pc = [t \in Callers |-> "idle"]
    /\ calls = 0
    /\ built = <<>>
    /\ returned = <<>>

\* no file is being cleaned of redundancy
RedundancyIdle ==
    /\ records = <<>>
    /\ records_read = <<>>
    /\ records_before = <<>>
    /\ record_i = 0
    /\ redundancy_pc = "idle"
    /\ jsonl_file = <<>>

OtherThanRagIdle ==
    /\ SourcesIdle /\ ChunkIdle /\ ConvertIdle /\ SaveIdle /\ SessionIdle
    /\ DatabaseIdle /\ RedundancyIdle

Idle ==
    /\ pc = "start"
    /\ expanded_query = None
    /\ intent = None
    /\ method_i = 0
    /\ called = <<>>
    /\ docs = Some(<<>>)
    /\ doc_i = 0
    /\ context_parts = <<>>
    /\ total_chars = 0
    /\ context = None
    /\ sources = None
    /\ prompt = None
    /\ result = None

\* every document list, from the store's retriever
InitAssembly ==
    /\ query = "How can I save money?"
    /\ rag_mode \in {"Strict", "Hybrid", "Model-only"}
    /\ \E ds \in DocLists : db = StoreRetriever(ds)

\* every query and mode, with an empty, a one-part and a two-part context
InitPrompt ==
    /\ query \in ExampleQueries
    /\ rag_mode \in Modes
    /\ \E ds \in {ds \in DocLists : Len(ds) <= 1} : db = StoreRetriever(ds)

\* every retriever
InitRetriever ==
    /\ query = "hello"
    /\ rag_mode \in {"Strict", "Model-only"}
    /\ db \in AnyRetrievers

Init == Idle /\ OtherThanRagIdle /\ (InitAssembly \/ InitPrompt \/ InitRetriever)

(***************************************************************************)
(* run_rag_chain, one action per step                                      *)
(***************************************************************************)
\* s_app.py:412
CallRewriteQuery ==
    /\ pc = "start"
    /\ UNCHANGED other_than_rag
    /\ expanded_query' = Some(rewrite_query(query))
    /\ pc' = "intent"
    /\ UNCHANGED <<query, rag_mode, db, intent, method_i, called, docs, doc_i,
                   context_parts, total_chars, context, sources, prompt, result>>

\* s_app.py:413
CallDetectQueryIntent ==
    /\ pc = "intent"
    /\ UNCHANGED other_than_rag
    /\ intent' = Some(detect_query_intent(query))
    /\ pc' = "as_retriever"
    /\ UNCHANGED <<query, rag_mode, db, expanded_query, method_i, called, docs,
                   doc_i, context_parts, total_chars, context, sources, prompt,
                   result>>

\* s_app.py:415-420
AsRetriever ==
    /\ pc = "as_retriever"
    /\ UNCHANGED other_than_rag
    /\ docs' = Some(<<>>)
    /\ method_i' = 1
    /\ pc' = "retrieve"
    /\ UNCHANGED <<query, rag_mode, db, expanded_query, intent, called, doc_i,
                   context_parts, total_chars, context, sources, prompt, result>>

\* no except clause: a raising method ends run_rag_chain
after_method_propagates(status) ==
    IF status = "returns" THEN "break"
    ELSE IF status = "raises" THEN "raise"
    ELSE "next"

\* the position after one iteration of the loop of s_app.py:421-427 over
\* method m: "next" moves to the following method (hasattr is false, or the
\* call raised and except/continue caught it), "break" leaves the loop; any
\* other value would be an exception leaving run_rag_chain
after_method(status) ==
    IF status = "returns" THEN "break" ELSE "next"

\* s_app.py:421-427, one iteration
TryMethod ==
    /\ pc = "retrieve"
    /\ UNCHANGED other_than_rag
    /\ method_i <= Len(METHODS)
    /\ LET m == db[method_i]
           go == after_method(m.status)
       IN  /\ called' = IF m.status = "absent" THEN called
                        ELSE Append(called, [method |-> METHODS[method_i],
                                             raised |-> m.status = "raises"])
           /\ docs' = IF m.status = "returns" THEN m.docs ELSE docs
           /\ IF go = "break"
              THEN method_i' = method_i /\ pc' = "ensure_list"
              ELSE IF go = "next"
              THEN method_i' = method_i + 1 /\ pc' = "retrieve"
              ELSE method_i' = method_i /\ pc' = "raised"
    /\ UNCHANGED <<query, rag_mode, db, expanded_query, intent, doc_i,
                   context_parts, total_chars, context, sources, prompt, result>>

\* s_app.py:421, the loop is exhausted
NoMethodLeft ==
    /\ pc = "retrieve"
    /\ UNCHANGED other_than_rag
    /\ method_i > Len(METHODS)
    /\ pc' = "ensure_list"
    /\ UNCHANGED <<query, rag_mode, db, expanded_query, intent, method_i, called,
                   docs, doc_i, context_parts, total_chars, context, sources,
                   prompt, result>>

\* s_app.py:429-435
EnsureList ==
    /\ pc = "ensure_list"
    /\ UNCHANGED other_than_rag
    /\ docs' = IF docs = None THEN Some(<<>>) ELSE docs
    /\ context_parts' = <<>>
    /\ total_chars' = 0
    /\ doc_i' = 1
    /\ pc' = "assemble"
    /\ UNCHANGED <<query, rag_mode, db, expanded_query, intent, method_i, called,
                   context, sources, prompt, result>>

\* the loop goes on after a truncated part
assemble_step_no_break(parts, total, content) ==
    IF total + Len(content) <= max_chars
    THEN [parts |-> Append(parts, content), total |-> total + Len(content),
          break |-> FALSE]
    ELSE LET remaining == max_chars - total
         IN  [parts |-> IF remaining > min_remaining
                        THEN Append(parts, SubSeq(content, 1, remaining))
                        ELSE parts,
              total |-> total, break |-> FALSE]

\* a remainder of min_remaining is enough for a truncated part
assemble_step_at_least(parts, total, content) ==
    IF total + Len(content) <= max_chars
    THEN [parts |-> Append(parts, content), total |-> total + Len(content),
          break |-> FALSE]
    ELSE LET remaining == max_chars - total
         IN  [parts |-> IF remaining >= min_remaining
                        THEN Append(parts, SubSeq(content, 1, remaining))
                        ELSE parts,
              total |-> total, break |-> TRUE]

\* s_app.py:442-449: what one non-empty document does to
\* (context_parts, total_chars), and whether the loop breaks
assemble_step(parts, total, content) ==
    IF total + Len(content) <= max_chars
    THEN [parts |-> Append(parts, content), total |-> total + Len(content),
          break |-> FALSE]
    ELSE LET remaining == max_chars - total
         IN  [parts |-> IF remaining > min_remaining
                        THEN Append(parts, SubSeq(content, 1, remaining))
                        ELSE parts,
              total |-> total, break |-> TRUE]

\* s_app.py:437-449, one iteration
AssembleDoc ==
    /\ pc = "assemble"
    /\ UNCHANGED other_than_rag
    /\ doc_i <= Len(docs[1])
    /\ LET content == doc_content(docs[1][doc_i])
       IN  IF ~Truthy(content)
           THEN /\ doc_i' = doc_i + 1
                /\ UNCHANGED <<context_parts, total_chars, pc>>
           ELSE LET r == assemble_step(context_parts, total_chars, content[1])
                IN  /\ context_parts' = r.parts
                    /\ total_chars' = r.total
                    /\ IF r.break
                       THEN doc_i' = doc_i /\ pc' = "join"
                       ELSE doc_i' = doc_i + 1 /\ pc' = "assemble"
    /\ UNCHANGED <<query, rag_mode, db, expanded_query, intent, method_i, called,
                   docs, context, sources, prompt, result>>

\* s_app.py:437, the loop is exhausted
NoDocLeft ==
    /\ pc = "assemble"
    /\ UNCHANGED other_than_rag
    /\ doc_i > Len(docs[1])
    /\ pc' = "join"
    /\ UNCHANGED <<query, rag_mode, db, expanded_query, intent, method_i, called,
                   docs, doc_i, context_parts, total_chars, context, sources,
                   prompt, result>>

\* s_app.py:451-454
JoinContext ==
    /\ pc = "join"
    /\ UNCHANGED other_than_rag
    /\ context' = Some(Join("\n\n", context_parts))
    /\ sources' = Some(build_sources(docs[1]))
    /\ pc' = "prompt"
    /\ UNCHANGED <<query, rag_mode, db, expanded_query, intent, method_i, called,
                   docs, doc_i, context_parts, total_chars, prompt, result>>

\* s_app.py:456-555
BuildPrompt ==
    /\ pc = "prompt"
    /\ UNCHANGED other_than_rag
    /\ prompt' = Some(render_prompt(rag_mode, count_instruction(intent[1].count),
                                    list_format(intent[1].list_type),
                                    context[1], query))
    /\ result' = Some([response_stream |-> "llm.stream(prompt)",
                       sources |-> returned_sources(rag_mode, sources[1])])
    /\ pc' = "done"
    /\ UNCHANGED <<query, rag_mode, db, expanded_query, intent, method_i, called,
                   docs, doc_i, context_parts, total_chars, context, sources>>

Next ==
    \/ CallRewriteQuery
    \/ CallDetectQueryIntent
    \/ AsRetriever
    \/ TryMethod
    \/ NoMethodLeft
    \/ EnsureList
    \/ AssembleDoc
    \/ NoDocLeft
    \/ JoinContext
    \/ BuildPrompt

Spec == Init /\ [][Next]_vars

\* rewrite_query and detect_query_intent alone, on every query built from Tokens
InitQuery ==
    /\ Idle
    /\ OtherThanRagIdle
    /\ query \in ExampleQueries \cup TokenQueries
    /\ rag_mode = "Strict"
    /\ db = StoreRetriever(<<>>)

NextQuery == CallRewriteQuery \/ CallDetectQueryIntent

SpecQuery == InitQuery /\ [][NextQuery]_vars

(***************************************************************************)
(* Properties of run_rag_chain                                             *)
(***************************************************************************)
Assembling == pc \in {"assemble", "join", "prompt", "done"}

\* the documents with non-empty content, in retrieval order
RECURSIVE NonEmptyDocs(_)
NonEmptyDocs(ds) ==
    IF ds = <<>> THEN <<>>
    ELSE (IF Truthy(doc_content(ds[1])) THEN <<ds[1]>> ELSE <<>>)
         \o NonEmptyDocs(Tail(ds))

IsPrefix(p, s) == Len(p) <= Len(s) /\ SubSeq(s, 1, Len(p)) = p

\* C1: the context string (the parts joined with blank lines) is never
\* longer than max_chars = 1500.
C1_ContextWithinBudget ==
    context # None => Len(context[1]) <= max_chars

\* C2: the parts are the non-empty documents' contents in retrieval order;
\* every part but the last is the complete content of its document, the last
\* is a non-empty prefix of its document's content, so that nothing follows
\* a truncated part.
C2_PartsInOrderOnlyLastTruncated ==
    Assembling =>
        LET ne == NonEmptyDocs(docs[1])
            n == Len(context_parts)
        IN  /\ n <= Len(ne)
            /\ \A i \in 1..n :
                  /\ context_parts[i] # ""
                  /\ IsPrefix(context_parts[i], doc_content(ne[i])[1])
                  /\ i < n => context_parts[i] = doc_content(ne[i])[1]
            /\ context # None => context[1] = Join("\n\n", context_parts)

C2_TruncatedLastPart ==
    /\ pc = "done"
    /\ Len(context_parts) >= 2
    /\ LET n == Len(context_parts)
       IN  Len(context_parts[n]) < Len(doc_content(NonEmptyDocs(docs[1])[n])[1])

\* C3: in Strict and Hybrid modes the returned sources are exactly the
\* documents whose text was placed in the context, in order, each with its
\* full content and metadata.
C3_SourcesAreDocsUsed ==
    (pc = "done" /\ rag_mode \in {"Strict", "Hybrid"}) =>
        LET ne == NonEmptyDocs(docs[1])
        IN  result[1].sources =
                [i \in 1..Len(context_parts) |->
                    [content |-> doc_content(ne[i])[1],
                     metadata |-> IF ne[i].attr_metadata # None
                                  THEN ne[i].attr_metadata[1] ELSE EmptyDict]]

\* C4: in Strict mode the prompt demands exactly N items whenever
\* detect_query_intent returned count = N, and holds no such demand when
\* count is None.
C4_StrictPromptDemandsCount ==
    (pc = "done" /\ rag_mode = "Strict") =>
        IF intent[1].count # None
        THEN Contains("You MUST provide exactly " \o str(intent[1].count[1])
                      \o " items", prompt[1])
        ELSE ~Contains("You MUST provide exactly", prompt[1])

\* wordings by which a prompt tells the model to refuse or to say that the
\* information is missing
RefusalCues ==
    {"acknowledge", "don't know", "do not know", "not available",
     "no information", "not enough information", "cannot answer",
     "unable to answer", "not found", "refuse", "say so"}

\* C5: with an empty context the Strict prompt tells the model to refuse or
\* to acknowledge the missing information: it is not the template with a
\* blank Context slot.
C5_EmptyContextPromptRefuses ==
    (pc = "done" /\ rag_mode = "Strict" /\ context[1] = "") =>
        \/ \E cue \in RefusalCues : Contains(cue, Lower(prompt[1]))
        \/ prompt[1] # strict_prompt(count_instruction(intent[1].count), "", query)

\* C6: in any mode other than Strict and Hybrid the returned source list is
\* empty and the prompt holds neither the context nor any of its parts; in
\* Strict and Hybrid the list built from the documents is returned as is.
C6_ModelOnlyClearsSources ==
    pc = "done" =>
        IF rag_mode \in {"Strict", "Hybrid"}
        THEN /\ result[1].sources = sources[1]
             /\ Len(result[1].sources) = Len(docs[1])
        ELSE /\ result[1].sources = <<>>
             /\ \A i \in 1..Len(context_parts) :
                    ~Contains(context_parts[i], prompt[1])

C6_ModelOnlyWithDocs ==
    /\ pc = "done"
    /\ rag_mode \notin {"Strict", "Hybrid"}
    /\ Len(docs[1]) >= 2
    /\ context_parts # <<>>

Exposed == {m \in 1..Len(METHODS) : db[m].status # "absent"}
Answering == {m \in Exposed : db[m].status = "returns"}
LastTried ==
    IF Answering = {} THEN Len(METHODS)
    ELSE CHOOSE m \in Answering : \A o \in Answering : m <= o
Tried == {m \in Exposed : m <= LastTried}

\* C7: retrieval never raises; the exposed methods are called in the fixed
\* order, each one that raises being followed by the next, up to the first
\* that returns, whose documents are used; when none returns, or the one
\* that returns gives None, the context and the source list are empty.
C7_RetrievalFallsBack ==
    /\ pc # "raised"
    /\ Assembling =>
          /\ Len(called) = Cardinality(Tried)
          /\ \A i \in 1..Len(called) :
                \E m \in Tried :
                    /\ Cardinality({o \in Tried : o < m}) = i - 1
                    /\ called[i] = [method |-> METHODS[m],
                                    raised |-> db[m].status = "raises"]
          /\ docs = IF Answering = {} \/ db[LastTried].docs = None
                    THEN Some(<<>>) ELSE db[LastTried].docs
    /\ (pc = "done" /\ (Answering = {} \/ db[LastTried].docs = None)) =>
          /\ context = Some("")
          /\ sources = Some(<<>>)
          /\ result # None

C7_FallbackAfterRaise ==
    /\ pc = "done"
    /\ Len(called) >= 3
    /\ called[1].raised /\ called[2].raised
    /\ docs[1] # <<>>
    /\ Exposed # 1..Len(METHODS)

(***************************************************************************)
(* Properties of rewrite_query and detect_query_intent                     *)
(***************************************************************************)
\* C8 as claimed: rewrite_query("How can I save money?") contains
\* "emergency fund".
C8_SaveExpansionHasEmergencyFund ==
    (query = "How can I save money?" /\ expanded_query # None) =>
        Contains("emergency fund", expanded_query[1])

\* C8 as amended: rewrite_query("How can I save money?") is the query, a
\* space and the "save" expansion "saving tips money management", and does not
\* contain "emergency fund".
C8_SaveExpansion ==
    (query = "How can I save money?" /\ expanded_query # None) =>
        /\ expanded_query[1] = "How can I save money? saving tips money management"
        /\ ~Contains("emergency fund", expanded_query[1])

C8_SaveQueryRewritten ==
    query = "How can I save money?" /\ expanded_query # None

\* the table entries whose trigger occurs in the lowercased query
TriggersIn(q) ==
    {k \in 1..Len(financial_keywords) : Contains(financial_keywords[k][1], Lower(q))}

\* C9: without a trigger in the lowercased query rewrite_query returns the
\* query unchanged; otherwise the query, one space and the expansion of the
\* first trigger in table order, and nothing more.
C9_FirstTriggerInTableOrder ==
    expanded_query # None =>
        IF TriggersIn(query) = {}
        THEN expanded_query[1] = query
        ELSE LET k == CHOOSE a \in TriggersIn(query) : \A b \in TriggersIn(query) : a <= b
             IN  expanded_query[1] = query \o " " \o financial_keywords[k][2]

\* a later table entry's trigger stands earlier in the query
C9_SeveralTriggers ==
    /\ expanded_query # None
    /\ TriggersIn(query) = {1, 2}
    /\ StartsWith(Lower(query), "budget")

\* the digit runs of s (not extendable on either side) that are followed,
\* after optional whitespace, by a list noun
CountedRuns(s) ==
    {r \in (1..Len(s)) \X (1..Len(s)) :
        /\ r[1] <= r[2]
        /\ AllDigits(s, r[1], r[2])
        /\ ~IsDigit(CharAt(s, r[1] - 1))
        /\ ~IsDigit(CharAt(s, r[2] + 1))
        /\ \E k \in (r[2] + 1)..(Len(s) + 1) :
              AllSpaces(s, r[2] + 1, k - 1) /\ NounAt(s, k)}

\* C10: when digits are followed, after optional whitespace, by a list noun,
\* count is the value of the first such digit run, whatever spelled-out
\* number the query holds; "What are 5 mistakes to avoid?" gives
\* list_type "mistakes" and count 5.
C10_DigitCountFirst ==
    intent # None =>
        /\ LET s == Lower(query)
               runs == CountedRuns(s)
           IN  runs # {} =>
                 LET r == CHOOSE a \in runs : \A b \in runs : a[1] <= b[1]
                 IN  intent[1].count = Some(int(SubSeq(s, r[1], r[2])))
        /\ query = "What are 5 mistakes to avoid?" =>
              intent[1].list_type = Some("mistakes") /\ intent[1].count = Some(5)

C10_DigitsBeatWord ==
    /\ intent # None
    /\ Contains("three", Lower(query))
    /\ CountedRuns(Lower(query)) # {}
    /\ intent[1].count = Some(12)

\* a letter, a digit or an underscore
IsWordChar(c) ==
    \/ \E k \in 1..26 : Upper[k] = c \/ LowerOf[k] = c
    \/ IsDigit(c)
    \/ c = "_"

\* w stands at position i of s as a word of its own
WordAt(w, s, i) ==
    /\ PrefixAt(w, s, i)
    /\ ~IsWordChar(CharAt(s, i - 1))
    /\ ~IsWordChar(CharAt(s, i + Len(w)))

\* the spelled-out numbers one..ten that stand in s as words of their own
StandaloneNumbers(s) ==
    {k \in 1..Len(word_nums) : \E i \in 1..Len(s) : WordAt(word_nums[k][1], s, i)}

\* C11: without a digit-and-noun match, a query holding a spelled-out number
\* as a standalone word gets as count the value of the first number word, in
\* the order one..ten, standing in it; "three tips for saving" gives 3.
C11_FirstStandaloneNumberWord ==
    intent # None =>
        /\ LET s == Lower(query)
               ws == StandaloneNumbers(s)
           IN  (CountedRuns(s) = {} /\ ws # {}) =>
                 LET k == CHOOSE a \in ws : \A b \in ws : a <= b
                 IN  intent[1].count = Some(word_nums[k][2])
        /\ query = "three tips for saving" => intent[1].count = Some(3)

\* C12: without a digit-and-noun match, a query in which the letters of
\* one..ten stand only inside longer words (or not at all) gets no count.
C12_NumberInsideWordGivesNoCount ==
    intent # None =>
        LET s == Lower(query)
        IN  (CountedRuns(s) = {} /\ StandaloneNumbers(s) = {}) =>
              intent[1].count = None

\* the categories of list_patterns with a keyword in s
MatchingCategories(s) ==
    {k \in 1..Len(list_patterns) : AnyPattern(list_patterns[k][2], s)}

\* C13: list_type is the first category, in the order mistakes, tips, ways,
\* steps, reasons, habits, with a keyword occurring in the lowercased query,
\* and null when no category has one.
C13_FirstCategoryInOrder ==
    /\ [k \in 1..Len(list_patterns) |-> list_patterns[k][1]] =
           <<"mistakes", "tips", "ways", "steps", "reasons", "habits">>
    /\ intent # None =>
          LET cs == MatchingCategories(Lower(query))
          IN  IF cs = {} THEN intent[1].list_type = None
              ELSE LET k == CHOOSE a \in cs : \A b \in cs : a <= b
                   IN  intent[1].list_type = Some(list_patterns[k][1])

\* a keyword of tips stands in the query before a keyword of mistakes
C13_LaterCategoryFirstInQuery ==
    /\ intent # None
    /\ {1, 2} \subseteq MatchingCategories(Lower(query))
    /\ StartsWith(Lower(query), "tip")
    /\ intent[1].list_type = Some("mistakes")

(***************************************************************************)
(* The source list of the chat page (s_app.py:1229-1250) and               *)
(* get_article_info.  A metadata dict is the sequence of its <<key, value>> *)
(* pairs in insertion order, with string values.  The three non-ASCII      *)
(* characters of the source text, U+201A, U+00C4 and U+00EE, are written   *)
(* "{", "|" and "}"; no other string of the model holds these.             *)
(***************************************************************************)
has_key(d, k) == \E i \in 1..Len(d) : d[i][1] = k

\* d.get(k, default)
get(d, k, default) ==
    IF has_key(d, k) THEN d[CHOOSE i \in 1..Len(d) : d[i][1] = k][2] ELSE default

\* s.replace(old, new) for a non-empty old: the occurrences of old from the
\* left, not overlapping
RECURSIVE replace(_, _, _)
replace(s, old, new) ==
    LET at == {i \in 1..(Len(s) - Len(old) + 1) : PrefixAt(old, s, i)}
    IN  IF at = {} THEN s
        ELSE LET i == CHOOSE a \in at : \A b \in at : a <= b
             IN  SubSeq(s, 1, i - 1) \o new
                   \o replace(SubSeq(s, i + Len(old), Len(s)), old, new)

RECURSIVE lstrip(_)
lstrip(s) ==
    IF s # "" /\ IsSpace(CharAt(s, 1)) THEN lstrip(SubSeq(s, 2, Len(s))) ELSE s

RECURSIVE rstrip(_)
rstrip(s) ==
    IF s # "" /\ IsSpace(CharAt(s, Len(s))) THEN rstrip(SubSeq(s, 1, Len(s) - 1)) ELSE s

strip(s) == rstrip(lstrip(s))

\* os.path.basename: what follows the last "/"
basename(p) ==
    LET slashes == {i \in 1..Len(p) : CharAt(p, i) = "/"}
    IN  IF slashes = {} THEN p
        ELSE SubSeq(p, (CHOOSE a \in slashes : \A b \in slashes : a >= b) + 1, Len(p))

\* s_app.py:559-850, each entry <<key, title, url>>
ARTICLE_URLS == <<
    <<"smart_budgeting_technique",
      "Smart Budgeting Technique",
      "https://www.kwsp.gov.my/w/infographic/smart-budgeting-technique">>,
    <<"first_salary_tips",
      "First Salary Tips",
      "https://www.kwsp.gov.my/w/article/first-salary-tips">>,
    <<"travelling_green_tips",
      "Travelling Green Tips",
      "https://www.kwsp.gov.my/w/article/travelling-green-tips">>,
    <<"insurance_tips",
      "Insurance Tips",
      "https://www.kwsp.gov.my/w/infographic/insurance-tips">>,
    <<"saving_tips_for_gig_worker",
      "Savings Tips for Gig Workers",
      "https://www.kwsp.gov.my/w/infographic/savings-tips-for-gig-workers">>,
    <<"death_assistance",
      "EPF Death Assistance",
      "https://www.kwsp.gov.my/w/article/epf-death-assistance">>,
    <<"multiple_savings_with_i_saraan",
      "Multiply Savings with i-Saraan",
      "https://www.kwsp.gov.my/w/infographic/multiply-savings-with-i-saraan">>,
    <<"expense_after_retired",
      "Expenses After Retirement",
      "https://www.kwsp.gov.my/w/article/expenses-after-retired">>,
    <<"fomo_shopping",
      "FOMO Shopping",
      "https://www.kwsp.gov.my/w/article/fomo-shopping">>,
    <<"why_medical_insurance_importance",
      "Why Medical Insurance is Important",
      "https://www.kwsp.gov.my/w/article/why-medical-insurance-is-important">>,
    <<"buy_vs_rent",
      "Buy vs Rent Malaysia",
      "https://www.kwsp.gov.my/w/article/buy-vs-rent-malaysia">>,
    <<"fashion_on_a_budget",
      "Fashion on a Budget",
      "https://www.kwsp.gov.my/w/article/fashion-on-a-budget">>,
    <<"budgeting_rule",
      "50-30-20 Rule",
      "https://www.kwsp.gov.my/w/article/50-30-20-rule">>,
    <<"file_income_tax",
      "How to File Income Tax",
      "https://www.kwsp.gov.my/w/article/how-to-file-income-tax">>,
    <<"compound_interest_benefits",
      "Compound Interest Benefits",
      "https://www.kwsp.gov.my/w/article/compound-interest-benefits">>,
    <<"pay_yourself_first",
      "Pay Yourself First",
      "https://www.kwsp.gov.my/w/article/pay-yourself-first">>,
    <<"new_year_financial_goals",
      "New Year Financial Goals",
      "https://www.kwsp.gov.my/w/article/new-year-financial-goals">>,
    <<"master_your_finance",
      "Master Your Finance",
      "https://www.kwsp.gov.my/w/article/master-your-finance">>,
    <<"quick_ways_to_losing_savings",
      "Quick Ways to Lose Savings",
      "https://www.kwsp.gov.my/w/article/quick-ways-to-lose-savings">>,
    <<"surviving_on_paycheck",
      "Surviving on Paycheck",
      "https://www.kwsp.gov.my/w/article/surviving-on-paycheck">>,
    <<"scam_red_flags",
      "Scam Red Flags",
      "https://www.kwsp.gov.my/w/article/scam-red-flags">>,
    <<"vacation_on_budget",
      "Vacation on Budget",
      "https://www.kwsp.gov.my/w/article/vacation-on-budget">>,
    <<"save_money_malaysian_ways",
      "Save Money Malaysian Ways",
      "https://www.kwsp.gov.my/w/article/save-money-malaysian-ways">>,
    <<"financial_independence",
      "Financial Independence",
      "https://www.kwsp.gov.my/w/article/financial-independence">>,
    <<"how_to_avoid_online_scam",
      "How to Avoid Online Scam",
      "https://www.kwsp.gov.my/w/article/how-to-avoid-online-scam">>,
    <<"buy_first_think_later",
      "Buy First Think Later",
      "https://www.kwsp.gov.my/w/article/buy-first-think-later">>,
    <<"income_and_your_savings",
      "Income and Your Savings",
      "https://www.kwsp.gov.my/w/article/income-and-your-savings">>,
    <<"retirement_planning_tips",
      "Retirement Planning Tips",
      "https://www.kwsp.gov.my/w/article/retirement-planning-tips">>,
    <<"savings_and_inflation",
      "Savings and Inflation",
      "https://www.kwsp.gov.my/w/article/savings-and-inflation">>,
    <<"achieve_money_goals",
      "Achieve Money Goals",
      "https://www.kwsp.gov.my/w/article/achieve-money-goal">>,
    <<"how_to_use_akaun_3",
      "How to Use Akaun 3",
      "https://www.kwsp.gov.my/w/article/how-to-use-akaun-3">>,
    <<"saving_for_festives",
      "Savings for Festives",
      "https://www.kwsp.gov.my/w/article/savings-for-festives">>,
    <<"shariah_retirement",
      "Simpanan Shariah Retirement",
      "https://www.kwsp.gov.my/w/article/simpanan-shariah-retirement">>,
    <<"invest_smarter",
      "Invest Smarter",
      "https://www.kwsp.gov.my/w/article/invest-smarter">>,
    <<"retirement_calculator",
      "Retirement Calculator",
      "https://www.kwsp.gov.my/w/article/retirement-calculator">>,
    <<"ensuring_wife_future",
      "Ensuring Wife Future",
      "https://www.kwsp.gov.my/w/article/ensuring-wife-future">>,
    <<"epf_house",
      "EPF Housing Withdrawal",
      "https://www.kwsp.gov.my/w/article/epf-housing-withdrawal">>,
    <<"emergency_fund",
      "Emergency Fund",
      "https://www.kwsp.gov.my/w/article/emergency-fund">>,
    <<"reward_yourself",
      "Reward Yourself",
      "https://www.kwsp.gov.my/w/article/reward-yourself">>,
    <<"unwise_spending_habits",
      "Unwise Spending Habits",
      "https://www.kwsp.gov.my/w/article/unwise-spending-habits">>,
    <<"boost_your_savings",
      "Boost Your Savings",
      "https://www.kwsp.gov.my/w/article/boost-your-savings">>,
    <<"reasons_to_save_money",
      "Reasons to Save Money",
      "https://www.kwsp.gov.my/w/article/reasons-to-save-money">>,
    <<"kwsp_gov_my_w_article_50_30_20_rule",
      "50-30-20 Rule",
      "https://www.kwsp.gov.my/w/article/50-30-20-rule">>,
    <<"kwsp_gov_my_w_article_expenses_after_retired",
      "Expenses After Retirement",
      "https://www.kwsp.gov.my/w/article/expenses-after-retired">>,
    <<"kwsp_gov_my_w_article_why_medical_insurance_is_important",
      "Why Medical Insurance is Important",
      "https://www.kwsp.gov.my/w/article/why-medical-insurance-is-important">>,
    <<"kwsp_gov_my_w_infographic_savings_tips_for_gig_workers",
      "Savings Tips for Gig Workers",
      "https://www.kwsp.gov.my/w/infographic/savings-tips-for-gig-workers">>,
    <<"educational_methodologies_of_personal_finance",
      "Educational Methodologies of Personal Finance",
      "https://www.financialeducatorscouncil.org/wp-content/uploads/Educational-Methodologies-of-Personal-Finance.pdf">>,
    <<"flcc_for_malaysian_adults_compressed",
      "Financial Literacy for Malaysian Adults",
      "https://www.fenetwork.my/wp-content/uploads/2023/02/Financial-Literacy-Core-Competencies-for-Malaysian-Adults.pdf">>,
    <<"framework_for_teaching_personal_finance",
      "Framework for Teaching Personal Finance",
      "https://www.financialeducatorscouncil.org/wp-content/uploads/Framework-for-Teaching-Personal-Finance.pdf">>,
    <<"learner_framework_standards_for_high_school_college_adults",
      "Learner Framework Standards for Financial Literacy",
      "https://www.financialeducatorscouncil.org/wp-content/uploads/DOC_PKG_EXC_-NFEC-Learner-Framework-Standards-for-High-School-College-Adults-_3.4.09.pdf">>,
    <<"nfec_report_policy_and_standards_framework_for_high_school_financial_literacy_education",
      "NFEC: Policy and Standards Framework for Financial Literacy",
      "https://www.financialeducatorscouncil.org/wp-content/uploads/nfec-report-policy-and-standards-framework-for-high-school-financial-literacy-education.pdf">>,
    <<"smart_technique_an_easy_way_to_achieve_financial_goals_kwsp_malaysia",
      "S.M.A.R.T Technique: Achieve Financial Goals",
      "https://www.kwsp.gov.my/en/w/infographic/smart-budgeting-technique">>,
    <<"5 mistakes young adult make with money {|} lalua rahsiad.jsonl",
      "5 Mistakes Young Adults Make With Money",
      "https://www.laluarahsiad.com/blog-2/blog2">>,
    <<"what no one tells you about budgeting in your 20s {|} lalua rahsiad.jsonl",
      "What No One Tells You About Budgeting in Your 20s",
      "https://www.laluarahsiad.com/blog-2/blog3">>,
    <<"why financial freedom starts with your mindset {|} lalua rahsiad.jsonl",
      "Why Financial Freedom Starts with Your Mindset",
      "https://www.laluarahsiad.com/blog-2/blog1">>,
    <<"how to celebrate deepavali without overspending - kwsp malaysia.jsonl",
      "Celebrate Deepavali Without Overspending",
      "https://www.kwsp.gov.my/en/w/article/celebrate-deepavali-without-overspending">>,
    <<"article 4 (digital financial).jsonl",
      "Digital Financial Management",
      "https://www.akpk.org.my/sites/default/files/2024-12/ARTICLE%204%20%28DIGITAL%20FINANCIAL%29.pdf">>,
    <<"article 6 (getting into debt).jsonl",
      "Getting Into Debt: What You Need to Know",
      "https://www.akpk.org.my/sites/default/files/2025-02/ARTICLE%206%20%28GETTING%20INTO%20DEBT%29.pdf">>,
    <<"article 8 (breaking the chains).jsonl",
      "Breaking the Chains of Debt",
      "https://www.akpk.org.my/sites/default/files/2025-02/ARTICLE%208%20%28BREAKING%20THE%20CHAINS%29.pdf">>,
    <<"s.m.a.r.t technique_ an easy way to achieve financial goals - kwsp malaysia.jsonl",
      "S.M.A.R.T Technique: Achieve Financial Goals",
      "https://www.kwsp.gov.my/en/w/infographic/smart-budgeting-technique">>,
    <<"financial fraud prevention and detection_ governance and effective practices ( pdfdrive ).jsonl",
      "Financial Fraud Prevention and Detection",
      "https://institutes.abu.edu.ng/idr/public/assets/docs/Financial%20Fraud%20Prevention%20and%20Detection_%20Governance%20and%20Effective%20Practices%20(%20PDFDrive%20).pdf">>,
    <<"www_kwsp.gov",
      "BNPL: Buy Now Pay Later",
      "https://www.kwsp.gov.my/w/article/buy-now-pay-later">>,
    <<"buying_first_car",
      "Buying Your First Car",
      "https://www.kwsp.gov.my/w/article/buying-first-car">>,
    <<"early_retirement_habits",
      "Early Retirement Habits",
      "https://www.kwsp.gov.my/w/article/early-retirement-habits">>,
    <<"5_mistakes_young_adult_make_with_money_lalua_rahsiad",
      "5 Mistakes Young Adults Make With Money",
      "https://www.laluarahsiad.com/blog-2/blog2">>,
    <<"what_no_one_tells_you_about_budgeting_in_your_20s_lalua_rahsiad",
      "What No One Tells You About Budgeting in Your 20s",
      "https://www.laluarahsiad.com/blog-2/blog3">>,
    <<"why_financial_freedom_starts_with_your_mindset_lalua_rahsiad",
      "Why Financial Freedom Starts with Your Mindset",
      "https://www.laluarahsiad.com/blog-2/blog1">>,
    <<"how_to_celebrate_deepavali_without_overspending_kwsp_malaysia",
      "Celebrate Deepavali Without Overspending",
      "https://www.kwsp.gov.my/en/w/article/celebrate-deepavali-without-overspending">>,
    <<"article_4_digital_financial",
      "Digital Financial Management",
      "https://www.akpk.org.my/sites/default/files/2024-12/ARTICLE%204%20%28DIGITAL%20FINANCIAL%29.pdf">>,
    <<"article_6_getting_into_debt",
      "Getting Into Debt: What You Need to Know",
      "https://www.akpk.org.my/sites/default/files/2025-02/ARTICLE%206%20%28GETTING%20INTO%20DEBT%29.pdf">>,
    <<"article_8_breaking_the_chains",
      "Breaking the Chains of Debt",
      "https://www.akpk.org.my/sites/default/files/2025-02/ARTICLE%208%20%28BREAKING%20THE%20CHAINS%29.pdf">> >>

\* s_app.py:866 and 881
article_key(name) ==
    strip(replace(replace(replace(replace(replace(Lower(name), " ", "_"),
                                          "-", "_"),
                                  "{|}", "_"),
                          ".jsonl", ""),
                  ".pdf", ""))

default_url == "https://www.kwsp.gov.my"

url_keys == <<"url", "source", "source_url", "link", "href", "webpage_url", "uri">>

\* s_app.py:926-928 and 933-935
as_url(v) == IF StartsWith(v, "www") THEN "https://" \o v ELSE v

\* s_app.py:922-928, from key k of url_keys on
RECURSIVE url_by_key(_, _)
url_by_key(d, k) ==
    IF k > Len(url_keys) THEN None
    ELSE LET v == get(d, url_keys[k], "")
         IN  IF v # "" /\ (StartsWith(v, "http") \/ StartsWith(v, "www"))
             THEN Some(as_url(v))
             ELSE url_by_key(d, k + 1)

\* s_app.py:931-935, from the i-th value on
RECURSIVE url_by_value(_, _)
url_by_value(d, i) ==
    IF i > Len(d) THEN None
    ELSE IF Contains("http", d[i][2]) \/ StartsWith(d[i][2], "www")
         THEN Some(as_url(d[i][2]))
         ELSE url_by_value(d, i + 1)

extract_source_url(d) ==
    IF d = <<>> THEN default_url
    ELSE IF url_by_key(d, 1) # None THEN url_by_key(d, 1)[1]
    ELSE IF url_by_value(d, 1) # None THEN url_by_value(d, 1)[1]
    ELSE default_url

\* s_app.py:870-877: the answer of the special case, or None when it falls
\* through
lalua_info(source_key, meta_title) ==
    LET has(w) == \/ Contains(w, Lower(source_key))
                  \/ meta_title # "" /\ Contains(w, Lower(meta_title))
    IN  IF ~has("lalua") THEN None
        ELSE IF has("mistake")
             THEN Some(<<"5 Mistakes Young Adults Make With Money",
                         "https://www.laluarahsiad.com/blog-2/blog2">>)
        ELSE IF has("budget")
             THEN Some(<<"What No One Tells You About Budgeting in Your 20s",
                         "https://www.laluarahsiad.com/blog-2/blog3">>)
        ELSE IF has("mindset") \/ has("freedom")
             THEN Some(<<"Why Financial Freedom Starts with Your Mindset",
                         "https://www.laluarahsiad.com/blog-2/blog1">>)
        ELSE None

ExactKeys(key) == {k \in 1..Len(ARTICLE_URLS) : ARTICLE_URLS[k][1] = key}

PartialKeys(key) ==
    {k \in 1..Len(ARTICLE_URLS) :
        Contains(ARTICLE_URLS[k][1], key) \/ Contains(key, ARTICLE_URLS[k][1])}

First(S) == CHOOSE a \in S : \A b \in S : a <= b

\* s_app.py:884-892 and 898-906: the exact match, then the first entry, in
\* table order, that contains the key or is contained in it; None when the
\* table has neither
table_lookup(key) ==
    IF ExactKeys(key) # {} THEN Some(First(ExactKeys(key)))
    ELSE IF PartialKeys(key) # {} THEN Some(First(PartialKeys(key)))
    ELSE None

entry_info(k) == <<ARTICLE_URLS[k][2], ARTICLE_URLS[k][3]>>

\* s_app.py:853-912, returning <<title, url>>
get_article_info(name, d) ==
    LET source_file == get(d, "source_file", "")
        the_name == IF source_file # "" /\ name = "" THEN basename(source_file)
                    ELSE name
        meta_title == get(d, "title", "")
        source_key == IF the_name # "" THEN article_key(the_name) ELSE ""
        special == lalua_info(source_key, meta_title)
        by_title == IF meta_title # "" THEN table_lookup(article_key(meta_title))
                    ELSE None
        by_source == table_lookup(source_key)
    IN  IF special # None THEN special[1]
        ELSE IF by_title # None THEN entry_info(by_title[1])
        ELSE IF the_name = ""
             THEN <<get(d, "title", "Unknown Source"), extract_source_url(d)>>
        ELSE IF by_source # None THEN entry_info(by_source[1])
        ELSE <<get(d, "title", the_name), extract_source_url(d)>>

\* the "source" entry of the metadata is not read
select_source_name_without_source(d) ==
    IF get(d, "source_file", "") # "" THEN basename(get(d, "source_file", ""))
    ELSE get(d, "title", "")

\* s_app.py:1233-1238
select_source_name(d) ==
    IF get(d, "source_file", "") # "" THEN basename(get(d, "source_file", ""))
    ELSE get(d, "title", get(d, "source", ""))

\* s_app.py:1243-1250
detect_from_source(name, title, url, d) ==
    IF Contains("lalua", Lower(name)) \/ Contains("lalua", Lower(title))
    THEN "Lalua Rahsiad Blog"
    ELSE IF Contains("akpk", Lower(url)) THEN "AKPK Malaysia"
    ELSE IF Contains("kwsp", Lower(url)) \/ Contains("epf", Lower(url))
    THEN "KWSP Malaysia"
    ELSE get(d, "from", get(d, "company", "Financial Education Resource"))

\* the entry of key k with each of the values vs, or no entry
Entry(k, vs) == {<<>>} \cup {<< <<k, v>> >> : v \in vs}

MetadataInputs ==
    {a \o b \o c \o d \o e \o f :
        a \in Entry("source_file", {"data/chunks/budgeting_rule.jsonl",
                                    "docs/Cash Notes.pdf"}),
        b \in Entry("title", {"", "Saving tips", "Emergency Fund",
                              "Lalua budget"}),
        c \in Entry("source", {"budgeting_rule.jsonl", "Scam-Red Flags.pdf",
                               "unknown_notes.jsonl",
                               "www.akpk.org.my/debt"}),
        d \in Entry("note", {"see http://example.org/a"}),
        e \in Entry("url", {"https://www.akpk.org.my/x", "www.epf.gov.my"}),
        f \in Entry("from", {"Bank Negara"}) \cup Entry("company", {"Acme"})}

InitSources ==
    /\ Idle
    /\ ChunkIdle
    /\ ConvertIdle
    /\ SaveIdle
    /\ SessionIdle
    /\ DatabaseIdle
    /\ RedundancyIdle
    /\ query = "hello"
    /\ rag_mode = "Strict"
    /\ db = StoreRetriever(<<>>)
    /\ metadata \in MetadataInputs
    /\ source_pc = "select"
    /\ source_name = None
    /\ article = None
    /\ from_source = None

\* s_app.py:1231-1238
SelectSourceName ==
    /\ source_pc = "select"
    /\ source_name' = Some(select_source_name(metadata))
    /\ source_pc' = "lookup"
    /\ UNCHANGED <<metadata, article, from_source>>
    /\ UNCHANGED other_than_sources

\* s_app.py:1240
CallGetArticleInfo ==
    /\ source_pc = "lookup"
    /\ article' = Some(get_article_info(source_name[1], metadata))
    /\ source_pc' = "label"
    /\ UNCHANGED <<metadata, source_name, from_source>>
    /\ UNCHANGED other_than_sources

\* s_app.py:1242-1250
DetectFromSource ==
    /\ source_pc = "label"
    /\ from_source' = Some(detect_from_source(source_name[1], article[1][1],
                                              article[1][2], metadata))
    /\ source_pc' = "shown"
    /\ UNCHANGED <<metadata, source_name, article>>
    /\ UNCHANGED other_than_sources

NextSources == SelectSourceName \/ CallGetArticleInfo \/ DetectFromSource

SpecSources == InitSources /\ [][NextSources]_vars

(***************************************************************************)
(* Properties of the source list                                           *)
(***************************************************************************)
\* lowercase, spaces and hyphens to underscores, .jsonl and .pdf removed
NormalizedName(name) ==
    replace(replace(replace(replace(Lower(name), " ", "_"), "-", "_"),
                    ".jsonl", ""),
            ".pdf", "")

\* C14: metadata holding only source = "budgeting_rule.jsonl" is shown with
\* title "50-30-20 Rule" and URL .../w/article/50-30-20-rule; and whenever the
\* metadata has a source, no title and no source_file, and the normalized
\* source filename is a key of the table, the source is shown with that
\* key's title and URL.
C14_SourceFilenameResolves ==
    article # None =>
        /\ metadata = << <<"source", "budgeting_rule.jsonl">> >> =>
              article[1] = <<"50-30-20 Rule",
                             "https://www.kwsp.gov.my/w/article/50-30-20-rule">>
        /\ (/\ has_key(metadata, "source")
            /\ ~has_key(metadata, "title")
            /\ ~has_key(metadata, "source_file")) =>
              \A k \in 1..Len(ARTICLE_URLS) :
                  NormalizedName(get(metadata, "source", "")) = ARTICLE_URLS[k][1]
                      => article[1] = entry_info(k)

C14_BudgetingRuleShown ==
    /\ metadata = << <<"source", "budgeting_rule.jsonl">> >>
    /\ article # None

\* the table entries the shown source matches, by its normalized name or its
\* normalized title: with equality, or with containment in either direction
MatchedKeys(Keys(_)) ==
    (IF source_name[1] # "" THEN Keys(article_key(source_name[1])) ELSE {})
    \cup (IF get(metadata, "title", "") # ""
          THEN Keys(article_key(get(metadata, "title", ""))) ELSE {})

UrlLike(v) == StartsWith(v, "http") \/ StartsWith(v, "www")

\* C15: the answer of get_article_info is the entry of an exactly matched
\* key whenever the normalized source name or title equals a key; else the
\* entry of a substring-matched key when there is one; else a URL taken from
\* the metadata when it holds a URL-like value; else the default URL.
C15_ExactThenSubstringThenUrl ==
    article # None =>
        LET exact == MatchedKeys(ExactKeys)
            any == MatchedKeys(PartialKeys)
            url_like == {i \in 1..Len(metadata) : UrlLike(metadata[i][2])}
        IN  /\ exact # {} => \E k \in exact : article[1] = entry_info(k)
            /\ (exact = {} /\ any # {}) => \E k \in any : article[1] = entry_info(k)
            /\ (any = {} /\ url_like # {}) =>
                  \E i \in 1..Len(metadata) : article[1][2] = as_url(metadata[i][2])
            /\ (any = {} /\ url_like = {}) =>
                  \/ article[1][2] = default_url
                  \/ \E i \in 1..Len(metadata) : article[1][2] = metadata[i][2]

\* C16: the label is "Lalua Rahsiad Blog" when "lalua" occurs in the name or
\* the title, else "AKPK Malaysia" when "akpk" occurs in the URL, else "KWSP
\* Malaysia" when "kwsp" or "epf" occurs in the URL, else the generic label;
\* a source without "lalua" that matches no table entry and whose metadata
\* holds no URL gets the generic label.
C16_LabelFromNameAndUrl ==
    from_source # None =>
        LET generic == get(metadata, "from",
                           get(metadata, "company", "Financial Education Resource"))
            lalua == \/ Contains("lalua", Lower(source_name[1]))
                     \/ Contains("lalua", Lower(article[1][1]))
            url == Lower(article[1][2])
        IN  /\ from_source[1] =
                  IF lalua THEN "Lalua Rahsiad Blog"
                  ELSE IF Contains("akpk", url) THEN "AKPK Malaysia"
                  ELSE IF Contains("kwsp", url) \/ Contains("epf", url)
                       THEN "KWSP Malaysia"
                  ELSE generic
            /\ (/\ ~lalua
                /\ MatchedKeys(PartialKeys) = {}
                /\ \A i \in 1..Len(metadata) :
                      ~UrlLike(metadata[i][2]) /\ ~Contains("http", metadata[i][2]))
                => from_source[1] = generic

(***************************************************************************)
(* fix_chunks_metadata.py.  The em dash U+2014 of its table is written     *)
(* "~".  A JSON text and the Python value it loads to are trees of the     *)
(* same shape: a string (tok: the characters between the quotes in a text, *)
(* the decoded characters in a value), an object (m: its <<key, tree>>     *)
(* members in order, a text may repeat a key) or an array.  The lone       *)
(* surrogate U+D800, which UTF-8 cannot encode, is written "^".            *)
(***************************************************************************)
\* fix_chunks_metadata.py:19-344
FIX_ARTICLE_URLS == <<
    [key |-> "smart_budgeting_technique",
     title |-> "Smart Budgeting Technique",
     url |-> "https://www.kwsp.gov.my/w/infographic/smart-budgeting-technique",
     company |-> "KWSP Malaysia"],
    [key |-> "first_salary_tips",
     title |-> "First Salary Tips",
     url |-> "https://www.kwsp.gov.my/w/article/first-salary-tips",
     company |-> "KWSP Malaysia"],
    [key |-> "travelling_green_tips",
     title |-> "Travelling Green Tips",
     url |-> "https://www.kwsp.gov.my/w/article/travelling-green-tips",
     company |-> "KWSP Malaysia"],
    [key |-> "insurance_tips",
     title |-> "Insurance Tips",
     url |-> "https://www.kwsp.gov.my/w/infographic/insurance-tips",
     company |-> "KWSP Malaysia"],
    [key |-> "saving_tips_for_gig_worker",
     title |-> "Savings Tips for Gig Workers",
     url |-> "https://www.kwsp.gov.my/w/infographic/savings-tips-for-gig-workers",
     company |-> "KWSP Malaysia"],
    [key |-> "death_assistance",
     title |-> "EPF Death Assistance",
     url |-> "https://www.kwsp.gov.my/w/article/epf-death-assistance",
     company |-> "KWSP Malaysia"],
    [key |-> "multiple_savings_with_i_saraan",
     title |-> "Multiply Savings with i-Saraan",
     url |-> "https://www.kwsp.gov.my/w/infographic/multiply-savings-with-i-saraan",
     company |-> "KWSP Malaysia"],
    [key |-> "expense_after_retired",
     title |-> "Expenses After Retirement",
     url |-> "https://www.kwsp.gov.my/w/article/expenses-after-retired",
     company |-> "KWSP Malaysia"],
    [key |-> "fomo_shopping",
     title |-> "FOMO Shopping",
     url |-> "https://www.kwsp.gov.my/w/article/fomo-shopping",
     company |-> "KWSP Malaysia"],
    [key |-> "why_medical_insurance_importance",
     title |-> "Why Medical Insurance is Important",
     url |-> "https://www.kwsp.gov.my/w/article/why-medical-insurance-is-important",
     company |-> "KWSP Malaysia"],
    [key |-> "buy_vs_rent",
     title |-> "Buy vs Rent Malaysia",
     url |-> "https://www.kwsp.gov.my/w/article/buy-vs-rent-malaysia",
     company |-> "KWSP Malaysia"],
    [key |-> "fashion_on_a_budget",
     title |-> "Fashion on a Budget",
     url |-> "https://www.kwsp.gov.my/w/article/fashion-on-a-budget",
     company |-> "KWSP Malaysia"],
    [key |-> "budgeting_rule",
     title |-> "50-30-20 Rule",
     url |-> "https://www.kwsp.gov.my/w/article/50-30-20-rule",
     company |-> "KWSP Malaysia"],
    [key |-> "file_income_tax",
     title |-> "How to File Income Tax",
     url |-> "https://www.kwsp.gov.my/w/article/how-to-file-income-tax",
     company |-> "KWSP Malaysia"],
    [key |-> "compound_interest_benefits",
     title |-> "Compound Interest Benefits",
     url |-> "https://www.kwsp.gov.my/w/article/compound-interest-benefits",
     company |-> "KWSP Malaysia"],
    [key |-> "pay_yourself_first",
     title |-> "Pay Yourself First",
     url |-> "https://www.kwsp.gov.my/w/article/pay-yourself-first",
     company |-> "KWSP Malaysia"],
    [key |-> "new_year_financial_goals",
     title |-> "New Year Financial Goals",
     url |-> "https://www.kwsp.gov.my/w/article/new-year-financial-goals",
     company |-> "KWSP Malaysia"],
    [key |-> "master_your_finance",
     title |-> "Master Your Finance",
     url |-> "https://www.kwsp.gov.my/w/article/master-your-finance",
     company |-> "KWSP Malaysia"],
    [key |-> "quick_ways_to_losing_savings",
     title |-> "Quick Ways to Lose Savings",
     url |-> "https://www.kwsp.gov.my/w/article/quick-ways-to-lose-savings",
     company |-> "KWSP Malaysia"],
    [key |-> "surviving_on_paycheck",
     title |-> "Surviving on Paycheck",
     url |-> "https://www.kwsp.gov.my/w/article/surviving-on-paycheck",
     company |-> "KWSP Malaysia"],
    [key |-> "scam_red_flags",
     title |-> "Scam Red Flags",
     url |-> "https://www.kwsp.gov.my/w/article/scam-red-flags",
     company |-> "KWSP Malaysia"],
    [key |-> "vacation_on_budget",
     title |-> "Vacation on Budget",
     url |-> "https://www.kwsp.gov.my/w/article/vacation-on-budget",
     company |-> "KWSP Malaysia"],
    [key |-> "save_money_malaysian_ways",
     title |-> "Save Money Malaysian Ways",
     url |-> "https://www.kwsp.gov.my/w/article/save-money-malaysian-ways",
     company |-> "KWSP Malaysia"],
    [key |-> "financial_independence",
     title |-> "Financial Independence",
     url |-> "https://www.kwsp.gov.my/w/article/financial-independence",
     company |-> "KWSP Malaysia"],
    [key |-> "how_to_avoid_online_scam",
     title |-> "How to Avoid Online Scam",
     url |-> "https://www.kwsp.gov.my/w/article/how-to-avoid-online-scam",
     company |-> "KWSP Malaysia"],
    [key |-> "buy_first_think_later",
     title |-> "Buy First Think Later",
     url |-> "https://www.kwsp.gov.my/w/article/buy-first-think-later",
     company |-> "KWSP Malaysia"],
    [key |-> "income_and_your_savings",
     title |-> "Income and Your Savings",
     url |-> "https://www.kwsp.gov.my/w/article/income-and-your-savings",
     company |-> "KWSP Malaysia"],
    [key |-> "retirement_planning_tips",
     title |-> "Retirement Planning Tips",
     url |-> "https://www.kwsp.gov.my/w/article/retirement-planning-tips",
     company |-> "KWSP Malaysia"],
    [key |-> "savings_and_inflation",
     title |-> "Savings and Inflation",
     url |-> "https://www.kwsp.gov.my/w/article/savings-and-inflation",
     company |-> "KWSP Malaysia"],
    [key |-> "achieve_money_goals",
     title |-> "Achieve Money Goals",
     url |-> "https://www.kwsp.gov.my/w/article/achieve-money-goal",
     company |-> "KWSP Malaysia"],
    [key |-> "how_to_use_akaun_3",
     title |-> "How to Use Akaun 3",
     url |-> "https://www.kwsp.gov.my/w/article/how-to-use-akaun-3",
     company |-> "KWSP Malaysia"],
    [key |-> "saving_for_festives",
     title |-> "Savings for Festives",
     url |-> "https://www.kwsp.gov.my/w/article/savings-for-festives",
     company |-> "KWSP Malaysia"],
    [key |-> "shariah_retirement",
     title |-> "Simpanan Shariah Retirement",
     url |-> "https://www.kwsp.gov.my/w/article/simpanan-shariah-retirement",
     company |-> "KWSP Malaysia"],
    [key |-> "invest_smarter",
     title |-> "Invest Smarter",
     url |-> "https://www.kwsp.gov.my/w/article/invest-smarter",
     company |-> "KWSP Malaysia"],
    [key |-> "retirement_calculator",
     title |-> "Retirement Calculator",
     url |-> "https://www.kwsp.gov.my/w/article/retirement-calculator",
     company |-> "KWSP Malaysia"],
    [key |-> "ensuring_wife_future",
     title |-> "Ensuring Wife Future",
     url |-> "https://www.kwsp.gov.my/w/article/ensuring-wife-future",
     company |-> "KWSP Malaysia"],
    [key |-> "epf_house",
     title |-> "EPF Housing Withdrawal",
     url |-> "https://www.kwsp.gov.my/w/article/epf-housing-withdrawal",
     company |-> "KWSP Malaysia"],
    [key |-> "emergency_fund",
     title |-> "Emergency Fund",
     url |-> "https://www.kwsp.gov.my/w/article/emergency-fund",
     company |-> "KWSP Malaysia"],
    [key |-> "reward_yourself",
     title |-> "Reward Yourself",
     url |-> "https://www.kwsp.gov.my/w/article/reward-yourself",
     company |-> "KWSP Malaysia"],
    [key |-> "unwise_spending_habits",
     title |-> "Unwise Spending Habits",
     url |-> "https://www.kwsp.gov.my/w/article/unwise-spending-habits",
     company |-> "KWSP Malaysia"],
    [key |-> "boost_your_savings",
     title |-> "Boost Your Savings",
     url |-> "https://www.kwsp.gov.my/w/article/boost-your-savings",
     company |-> "KWSP Malaysia"],
    [key |-> "reasons_to_save_money",
     title |-> "Reasons to Save Money",
     url |-> "https://www.kwsp.gov.my/w/article/reasons-to-save-money",
     company |-> "KWSP Malaysia"],
    [key |-> "kwsp_gov_my_w_article_50_30_20_rule",
     title |-> "50-30-20 Rule",
     url |-> "https://www.kwsp.gov.my/w/article/50-30-20-rule",
     company |-> "KWSP Malaysia"],
    [key |-> "kwsp_gov_my_w_article_expenses_after_retired",
     title |-> "Expenses After Retirement",
     url |-> "https://www.kwsp.gov.my/w/article/expenses-after-retired",
     company |-> "KWSP Malaysia"],
    [key |-> "kwsp_gov_my_w_article_why_medical_insurance_is_important",
     title |-> "Why Medical Insurance is Important",
     url |-> "https://www.kwsp.gov.my/w/article/why-medical-insurance-is-important",
     company |-> "KWSP Malaysia"],
    [key |-> "kwsp_gov_my_w_infographic_savings_tips_for_gig_workers",
     title |-> "Savings Tips for Gig Workers",
     url |-> "https://www.kwsp.gov.my/w/infographic/savings-tips-for-gig-workers",
     company |-> "KWSP Malaysia"],
    [key |-> "educational_methodologies_of_personal_finance",
     title |-> "Educational Methodologies of Personal Finance",
     url |-> "https://www.financialeducatorscouncil.org/wp-content/uploads/Educational-Methodologies-of-Personal-Finance.pdf",
     company |-> "Educational Resource"],
    [key |-> "flcc_for_malaysian_adults_compressed",
     title |-> "Financial Literacy for Malaysian Adults",
     url |-> "https://www.fenetwork.my/wp-content/uploads/2023/02/Financial-Literacy-Core-Competencies-for-Malaysian-Adults.pdf",
     company |-> "Educational Resource"],
    [key |-> "framework_for_teaching_personal_finance",
     title |-> "Framework for Teaching Personal Finance",
     url |-> "https://www.financialeducatorscouncil.org/wp-content/uploads/Framework-for-Teaching-Personal-Finance.pdf",
     company |-> "Educational Resource"],
    [key |-> "learner_framework_standards_for_high_school_college_adults",
     title |-> "Learner Framework Standards for Financial Literacy",
     url |-> "https://www.financialeducatorscouncil.org/wp-content/uploads/DOC_PKG_EXC_-NFEC-Learner-Framework-Standards-for-High-School-College-Adults-_3.4.09.pdf",
     company |-> "Educational Resource"],
    [key |-> "nfec_report_policy_and_standards_framework_for_high_school_financial_literacy_education",
     title |-> "NFEC: Policy and Standards Framework for Financial Literacy",
     url |-> "https://www.financialeducatorscouncil.org/wp-content/uploads/nfec-report-policy-and-standards-framework-for-high-school-financial-literacy-education.pdf",
     company |-> "Educational Resource"],
    [key |-> "smart_technique_an_easy_way_to_achieve_financial_goals_kwsp_malaysia",
     title |-> "S.M.A.R.T Technique: Achieve Financial Goals",
     url |-> "https://www.kwsp.gov.my/en/w/infographic/smart-budgeting-technique",
     company |-> "KWSP Malaysia"],
    [key |-> "5 mistakes young adult make with money ~ lalua rahsiad.jsonl",
     title |-> "5 Mistakes Young Adults Make With Money",
     url |-> "https://www.laluarahsiad.com/blog-2/blog2",
     company |-> "Lalua Rahsiad"],
    [key |-> "what no one tells you about budgeting in your 20s ~ lalua rahsiad.jsonl",
     title |-> "What No One Tells You About Budgeting in Your 20s",
     url |-> "https://www.laluarahsiad.com/blog-2/blog3",
     company |-> "Lalua Rahsiad"],
    [key |-> "why financial freedom starts with your mindset ~ lalua rahsiad.jsonl",
     title |-> "Why Financial Freedom Starts with Your Mindset",
     url |-> "https://www.laluarahsiad.com/blog-2/blog1",
     company |-> "Lalua Rahsiad"],
    [key |-> "how to celebrate deepavali without overspending - kwsp malaysia.jsonl",
     title |-> "Celebrate Deepavali Without Overspending",
     url |-> "https://www.kwsp.gov.my/en/w/article/celebrate-deepavali-without-overspending",
     company |-> "KWSP Malaysia"],
    [key |-> "article 4 (digital financial).jsonl",
     title |-> "Digital Financial Management",
     url |-> "https://www.akpk.org.my/sites/default/files/2024-12/ARTICLE%204%20%28DIGITAL%20FINANCIAL%29.pdf",
     company |-> "AKPK Malaysia"],
    [key |-> "article 6 (getting into debt).jsonl",
     title |-> "Getting Into Debt: What You Need to Know",
     url |-> "https://www.akpk.org.my/sites/default/files/2025-02/ARTICLE%206%20%28GETTING%20INTO%20DEBT%29.pdf",
     company |-> "AKPK Malaysia"],
    [key |-> "article 8 (breaking the chains).jsonl",
     title |-> "Breaking the Chains of Debt",
     url |-> "https://www.akpk.org.my/sites/default/files/2025-02/ARTICLE%208%20%28BREAKING%20THE%20CHAINS%29.pdf",
     company |-> "AKPK Malaysia"],
    [key |-> "s.m.a.r.t technique_ an easy way to achieve financial goals - kwsp malaysia.jsonl",
     title |-> "S.M.A.R.T Technique: Achieve Financial Goals",
     url |-> "https://www.kwsp.gov.my/en/w/infographic/smart-budgeting-technique",
     company |-> "KWSP Malaysia"],
    [key |-> "financial fraud prevention and detection_ governance and effective practices ( pdfdrive ).jsonl",
     title |-> "Financial Fraud Prevention and Detection",
     url |-> "https://www.wiley.com/en-us/Financial+Fraud+Prevention+and+Detection%3A+Governance+and+Effective+Practices-p-9781118617632",
     company |-> "Financial Resource"],
    [key |-> "www_kwsp.gov",
     title |-> "BNPL: Buy Now Pay Later",
     url |-> "https://www.kwsp.gov.my/w/article/buy-now-pay-later",
     company |-> "KWSP Malaysia"],
    [key |-> "buying_first_car",
     title |-> "Buying Your First Car",
     url |-> "https://www.kwsp.gov.my/w/article/buying-first-car",
     company |-> "KWSP Malaysia"],
    [key |-> "early_retirement_habits",
     title |-> "Early Retirement Habits",
     url |-> "https://www.kwsp.gov.my/w/article/early-retirement-habits",
     company |-> "KWSP Malaysia"] >>

\* re.sub(r'\s*\(\d+\)\s*$', '', name): a closing "(digits)" goes, with the
\* whitespace around it
strip_duplicate_number(name) ==
    LET t == rstrip(name)
        opens == {i \in 1..(Len(t) - 2) :
                     /\ CharAt(t, i) = "("
                     /\ CharAt(t, Len(t)) = ")"
                     /\ AllDigits(t, i + 1, Len(t) - 1)}
    IN  IF opens = {} THEN name
        ELSE rstrip(SubSeq(t, 1, First(opens) - 1))

\* fix_chunks_metadata.py:346-363
normalize_filename(filename) ==
    LET name == strip_duplicate_number(strip(replace(Lower(filename), ".jsonl", "")))
        under == replace(replace(name, " ", "_"), "-", "_")
    IN  IF ~StartsWith(under, "www") THEN under
        ELSE IF under \in {"www_kwsp", "www_kwsp_gov"} THEN under
        ELSE replace(replace(under, "www_", ""), "www.", "")

FixKeys(Matches(_)) ==
    {k \in 1..Len(FIX_ARTICLE_URLS) : Matches(FIX_ARTICLE_URLS[k].key)}

\* fix_chunks_metadata.py:366-388: the entry found, or None
find_article_info(filename) ==
    LET normalized == normalize_filename(filename)
        normalized_hyphen == replace(normalized, "_", "-")
        Same(key) == key = normalized
        SameName(key) == key = Lower(filename)
        Partial(key) ==
            LET key_hyphen == replace(key, "_", "-")
            IN  \/ Contains(key, normalized)
                \/ Contains(normalized, key)
                \/ Contains(key_hyphen, normalized_hyphen)
                \/ Contains(normalized_hyphen, key_hyphen)
    IN  IF FixKeys(Same) # {} THEN Some(FIX_ARTICLE_URLS[First(FixKeys(Same))])
        ELSE IF FixKeys(SameName) # {}
             THEN Some(FIX_ARTICLE_URLS[First(FixKeys(SameName))])
        ELSE IF FixKeys(Partial) # {}
             THEN Some(FIX_ARTICLE_URLS[First(FixKeys(Partial))])
        ELSE None

JStr(tok) == [t |-> "str", tok |-> tok, m |-> <<>>]
JObj(m) == [t |-> "obj", tok |-> "", m |-> m]
JArr == [t |-> "arr", tok |-> "", m |-> <<>>]

\* the \uXXXX escapes of the texts read
unicode_escapes == << <<"0041", "A">>, <<"0061", "a">>, <<"d800", "^">> >>

\* the decoder's scan of a string token
RECURSIVE unescape(_)
unescape(tok) ==
    IF tok = "" THEN ""
    ELSE IF CharAt(tok, 1) # "\\"
         THEN CharAt(tok, 1) \o unescape(SubSeq(tok, 2, Len(tok)))
    ELSE IF CharAt(tok, 2) = "u"
         THEN LET e == CHOOSE k \in 1..Len(unicode_escapes) :
                           unicode_escapes[k][1] = Lower(SubSeq(tok, 3, 6))
              IN  unicode_escapes[e][2] \o unescape(SubSeq(tok, 7, Len(tok)))
    ELSE IF CharAt(tok, 2) = "n" THEN "\n" \o unescape(SubSeq(tok, 3, Len(tok)))
    ELSE CharAt(tok, 2) \o unescape(SubSeq(tok, 3, Len(tok)))

\* the encoder's scan of a string with ensure_ascii=False
RECURSIVE escape(_)
escape(s) ==
    IF s = "" THEN ""
    ELSE (IF CharAt(s, 1) = "\"" THEN "\\\""
          ELSE IF CharAt(s, 1) = "\\" THEN "\\\\"
          ELSE IF CharAt(s, 1) = "\n" THEN "\\n"
          ELSE CharAt(s, 1)) \o escape(SubSeq(s, 2, Len(s)))

\* an assignment adds a member even when the key is there
dict_set_append(d, k, v) == Append(d, <<k, v>>)

\* d[k] = v on a dict
dict_set(d, k, v) ==
    IF has_key(d, k)
    THEN [i \in 1..Len(d) |-> IF d[i][1] = k THEN <<k, v>> ELSE d[i]]
    ELSE Append(d, <<k, v>>)

\* json.loads of a text
RECURSIVE loads(_)
RECURSIVE loads_members(_, _)
loads_members(m, d) ==
    IF m = <<>> THEN d
    ELSE loads_members(Tail(m), dict_set(d, m[1][1], loads(m[1][2])))

loads(text) ==
    IF text.t = "str" THEN JStr(unescape(text.tok))
    ELSE IF text.t = "obj" THEN JObj(loads_members(text.m, <<>>))
    ELSE text

\* json.dumps(value, ensure_ascii=False)
RECURSIVE dumps(_)
dumps(value) ==
    IF value.t = "str" THEN JStr(escape(value.tok))
    ELSE IF value.t = "obj"
         THEN JObj([i \in 1..Len(value.m) |-> <<value.m[i][1], dumps(value.m[i][2])>>])
    ELSE value

\* the encoder of the file, UTF-8, accepts the text
RECURSIVE encodable(_)
encodable(text) ==
    /\ ~Contains("^", text.tok)
    /\ \A i \in 1..Len(text.m) : encodable(text.m[i][2])

\* a line of the file: blank, not JSON, or a JSON text written with the
\* separators ", " and ": " of json.dumps (spaced) or otherwise
BlankLine == [blank |-> TRUE, valid |-> FALSE, spaced |-> FALSE, text |-> JArr]
InvalidLine == [blank |-> FALSE, valid |-> FALSE, spaced |-> FALSE, text |-> JArr]
JsonLine(spaced, text) ==
    [blank |-> FALSE, valid |-> TRUE, spaced |-> spaced, text |-> text]

\* fix_chunks_metadata.py:411-417 on a chunk that is a dict whose "metadata",
\* if any, is a dict
set_metadata(record, filename, info) ==
    LET md == IF has_key(record.m, "metadata") THEN get(record.m, "metadata", JArr).m
              ELSE <<>>
        md4 == dict_set(dict_set(dict_set(dict_set(md, "source", JStr(filename)),
                                          "title", JStr(info.title)),
                                 "url", JStr(info.url)),
                        "from", JStr(info.company))
    IN  JObj(dict_set(record.m, "metadata", JObj(md4)))

\* fix_chunks_metadata.py:408-417 raise: the line is not JSON, the chunk is
\* not a dict, or its "metadata" is not a dict
update_raises(line) ==
    \/ ~line.valid
    \/ loads(line.text).t # "obj"
    \/ /\ has_key(loads(line.text).m, "metadata")
       /\ get(loads(line.text).m, "metadata", JArr).t # "obj"

MaxLines == 2
MaxPasses == 2

ChunkFilenames ==
    {"Budgeting Rule (1).jsonl", "www.scam-red-flags.jsonl", "notes.jsonl"}

ChunkLines ==
    { BlankLine,
      InvalidLine,
      JsonLine(TRUE, JObj(<< <<"text", JStr("A")>> >>)),
      JsonLine(FALSE, JObj(<< <<"text", JStr("\\u0041 \\\"b\\\"")>>,
                              <<"metadata",
                                JObj(<< <<"title", JStr("Old")>>,
                                        <<"page", JStr("3")>>,
                                        <<"title", JStr("Older")>> >>)>> >>)),
      JsonLine(TRUE, JObj(<< <<"metadata",
                               JObj(<< <<"from", JStr("Blog")>>,
                                       <<"source", JStr("old.jsonl")>> >>)>>,
                             <<"text", JStr("B")>> >>)),
      JsonLine(TRUE, JObj(<< <<"text", JStr("C")>>, <<"metadata", JStr("x")>> >>)),
      JsonLine(TRUE, JArr),
      JsonLine(TRUE, JObj(<< <<"text", JStr("\\ud800")>> >>)) }

ChunkFiles == UNION {[1..n -> ChunkLines] : n \in 0..MaxLines}

InitChunk ==
    /\ Idle
    /\ SourcesIdle
    /\ ConvertIdle
    /\ SaveIdle
    /\ SessionIdle
    /\ DatabaseIdle
    /\ RedundancyIdle
    /\ query = "hello"
    /\ rag_mode = "Strict"
    /\ db = StoreRetriever(<<>>)
    /\ chunk_name \in ChunkFilenames
    /\ chunk_file \in ChunkFiles
    /\ chunk_pc = "idle"
    /\ article_info = None
    /\ lines = <<>>
    /\ line_i = 0
    /\ chunk_returns = <<>>
    /\ chunk_after = <<>>

\* update_chunk_file returns r
chunk_return(r) ==
    /\ chunk_returns' = Append(chunk_returns, r)
    /\ chunk_after' = Append(chunk_after, chunk_file')
    /\ chunk_pc' = "idle"

\* fix_chunks_metadata.py:393-401
CallUpdateChunkFile ==
    /\ chunk_pc = "idle"
    /\ Len(chunk_returns) < MaxPasses
    /\ article_info' = find_article_info(chunk_name)
    /\ lines' = <<>>
    /\ line_i' = 1
    /\ IF article_info' = None
       THEN UNCHANGED chunk_file /\ chunk_return(FALSE)
       ELSE chunk_pc' = "read" /\ UNCHANGED <<chunk_file, chunk_returns, chunk_after>>
    /\ UNCHANGED chunk_name
    /\ UNCHANGED other_than_chunk

\* fix_chunks_metadata.py:405-420, one line of the file
ReadChunkLine ==
    /\ chunk_pc = "read"
    /\ line_i <= Len(chunk_file)
    /\ UNCHANGED <<chunk_name, chunk_file, article_info>>
    /\ LET line == chunk_file[line_i]
       IN  IF line.blank
           THEN /\ line_i' = line_i + 1
                /\ UNCHANGED <<lines, chunk_pc, chunk_returns, chunk_after>>
           ELSE IF update_raises(line)
           THEN /\ chunk_return(FALSE)
                /\ UNCHANGED <<lines, line_i>>
           ELSE /\ lines' = Append(lines,
                                   JsonLine(TRUE, dumps(set_metadata(loads(line.text),
                                                                     chunk_name,
                                                                     article_info[1]))))
                /\ line_i' = line_i + 1
                /\ UNCHANGED <<chunk_pc, chunk_returns, chunk_after>>
    /\ UNCHANGED other_than_chunk

\* fix_chunks_metadata.py:423, after the last line: open(filepath, 'w')
OpenChunkFileForWriting ==
    /\ chunk_pc = "read"
    /\ line_i > Len(chunk_file)
    /\ chunk_file' = <<>>
    /\ line_i' = 1
    /\ chunk_pc' = "write"
    /\ UNCHANGED <<chunk_name, article_info, lines, chunk_returns, chunk_after>>
    /\ UNCHANGED other_than_chunk

\* fix_chunks_metadata.py:424-425, one line
WriteChunkLine ==
    /\ chunk_pc = "write"
    /\ line_i <= Len(lines)
    /\ IF encodable(lines[line_i].text)
       THEN /\ chunk_file' = Append(chunk_file, lines[line_i])
            /\ line_i' = line_i + 1
            /\ UNCHANGED <<chunk_pc, chunk_returns, chunk_after>>
       ELSE /\ chunk_file' = chunk_file
            /\ chunk_return(FALSE)
            /\ UNCHANGED line_i
    /\ UNCHANGED <<chunk_name, article_info, lines>>
    /\ UNCHANGED other_than_chunk

\* fix_chunks_metadata.py:427-428
ChunkFileUpdated ==
    /\ chunk_pc = "write"
    /\ line_i > Len(lines)
    /\ UNCHANGED <<chunk_name, chunk_file, article_info, lines, line_i>>
    /\ chunk_return(TRUE)
    /\ UNCHANGED other_than_chunk

NextChunk ==
    \/ CallUpdateChunkFile
    \/ ReadChunkLine
    \/ OpenChunkFileForWriting
    \/ WriteChunkLine
    \/ ChunkFileUpdated

SpecChunk == InitChunk /\ [][NextChunk]_vars

(***************************************************************************)
(* Properties of update_chunk_file                                         *)
(***************************************************************************)
\* C17: after a pass of update_chunk_file that succeeded, another pass on the
\* same file leaves the file's content as the first pass left it: the same
\* lines in the same order, the same fields and values.
C17_SecondPassChangesNothing ==
    \A n \in 1..(Len(chunk_returns) - 1) :
        chunk_returns[n] => chunk_after[n + 1] = chunk_after[n]

\* two passes succeeded on a file the first pass rewrote: a line was not in
\* json.dumps form, had no metadata and stale metadata
C17_TwoPassesOnRewrittenFile ==
    /\ Len(chunk_returns) = 2
    /\ chunk_returns[1] /\ chunk_returns[2]
    /\ Len(chunk_after[2]) = 2
    /\ \E i \in 1..Len(chunk_after[2]) :
          get(chunk_after[2][i].text.m, "text", JArr) = JStr("A \\\"b\\\"")

(***************************************************************************)
(* convert_rag_to_training.py: create_qa_pairs_from_chunk                  *)
(***************************************************************************)
\* convert_rag_to_training.py:23-118, each entry <<topic, templates>>, a
\* template <<question, preset_answer>>
TOPIC_QA_TEMPLATES == <<
    <<"50/30/20",
      <<<<"What is the 50/30/20 budgeting rule?", None>>,
        <<"How do I apply the 50/30/20 rule?", None>>,
        <<"How should I divide my salary using the 50/30/20 rule?", None>>,
        <<"Can you give an example of 50/30/20 budgeting?", None>>,
        <<"What percentage of my income should go to savings?", None>>>> >>,
    <<"savings",
      <<<<"How can I start saving money?", None>>,
        <<"What is 'pay yourself first'?", None>>,
        <<"How much should I save each month?", None>>,
        <<"What is an emergency fund?", None>>,
        <<"How do I build an emergency fund?", None>>,
        <<"Why is saving important for young adults?", None>>,
        <<"How can I save money on a low salary?", None>>>> >>,
    <<"budget",
      <<<<"How do I create a budget?", None>>,
        <<"What are some budgeting tips?", None>>,
        <<"How can I track my expenses?", None>>,
        <<"How do I stick to my budget?", None>>,
        <<"What are common budgeting mistakes?", None>>,
        <<"How can I budget on a RM2000 salary?", None>>>> >>,
    <<"debt",
      <<<<"How can I avoid getting into debt?", None>>,
        <<"What should I know about credit cards?", None>>,
        <<"How do I pay off my debts?", None>>,
        <<"What is the debt snowball method?", None>>,
        <<"Is BNPL (Buy Now Pay Later) a good idea?", None>>,
        <<"How do young Malaysians get into debt?", None>>>> >>,
    <<"investment",
      <<<<"How does compound interest work?", None>>,
        <<"When should I start investing?", None>>,
        <<"What are basic investment options in Malaysia?", None>>,
        <<"What is EPF/KWSP?", None>>,
        <<"How can compound interest help me build wealth?", None>>>> >>,
    <<"retirement",
      <<<<"How do I plan for retirement?", None>>,
        <<"What habits help with early retirement?", None>>,
        <<"How much do I need for retirement in Malaysia?", None>>,
        <<"What expenses should I expect after retirement?", None>>>> >>,
    <<"tax",
      <<<<"How do I file income tax in Malaysia?", None>>,
        <<"What tax deductions can I claim?", None>>,
        <<"When is the tax filing deadline in Malaysia?", None>>,
        <<"What is LHDN and how do I use it?", None>>>> >>,
    <<"insurance",
      <<<<"Why is medical insurance important?", None>>,
        <<"What types of insurance should I have?", None>>,
        <<"How do I choose the right insurance?", None>>,
        <<"What insurance do young adults need?", None>>>> >>,
    <<"car",
      <<<<"Should I buy a new or used car?", None>>,
        <<"How do I budget for a car purchase?", None>>,
        <<"What should I know about car loans?", None>>,
        <<"Tips for buying my first car in Malaysia?", None>>>> >>,
    <<"house",
      <<<<"Should I buy or rent a house in Malaysia?", None>>,
        <<"How do I save for a house down payment?", None>>,
        <<"What should first-time homebuyers know?", None>>,
        <<"What are the costs of owning a home?", None>>>> >>,
    <<"scam",
      <<<<"How can I avoid financial scams?", None>>,
        <<"What are common online scams to watch for?", None>>,
        <<"How do I protect myself from fraud?", None>>>> >>,
    <<"first_salary",
      <<<<"What should I do with my first salary?", None>>,
        <<"How should fresh graduates manage their money?", None>>,
        <<"What financial mistakes do young adults make?", None>>,
        <<"Tips for managing money in my 20s?", None>>>> >>,
    <<"mindset",
      <<<<"How does mindset affect financial success?", None>>,
        <<"What is financial freedom?", None>>,
        <<"How can I change my money mindset?", None>>>> >>,
    <<"gig_worker",
      <<<<"How should gig workers manage their finances?", None>>,
        <<"What savings tips are there for freelancers?", None>>>> >>,
    <<"general",
      <<<<"What financial advice do you have for Malaysian youth?", None>>,
        <<"How can I be better with money?", None>>,
        <<"What are the basics of personal finance?", None>>>> >> >>

\* convert_rag_to_training.py:121-136
TOPIC_KEYWORDS == <<
    <<"50/30/20",
      <<"50/30/20", "50-30-20", "50 30 20", "budgeting rule", "50% for needs", "30% for wants", "20% for savings">> >>,
    <<"savings",
      <<"saving", "emergency fund", "savings account", "pay yourself first", "save money", "savings cushion", "start saving">> >>,
    <<"budget",
      <<"budget", "expense", "spending", "money management", "track your", "financial plan", "income allocation">> >>,
    <<"debt",
      <<"debt", "credit card", "loan", "bnpl", "buy now pay later", "repayment", "borrow", "owing money">> >>,
    <<"investment",
      <<"invest", "compound interest", "grow your money", "returns", "portfolio", "wealth building">> >>,
    <<"retirement",
      <<"retirement", "retire", "epf", "kwsp", "pension", "after retirement">> >>,
    <<"tax",
      <<"tax", "lhdn", "income tax", "tax relief", "tax deduction", "filing", "pcb">> >>,
    <<"insurance",
      <<"insurance", "medical cover", "protection", "policy", "coverage", "insured">> >>,
    <<"car",
      <<"car", "vehicle", "automobile", "car loan", "car financing", "first car">> >>,
    <<"house",
      <<"house", "home", "property", "housing loan", "buy vs rent", "homeowner", "mortgage">> >>,
    <<"scam",
      <<"scam", "fraud", "phishing", "trick", "con", "suspicious", "deceive">> >>,
    <<"first_salary",
      <<"first salary", "fresh graduate", "first job", "young adult", "starting work", "first paycheck">> >>,
    <<"mindset",
      <<"mindset", "financial freedom", "wealth mindset", "money mindset", "attitude", "discipline">> >>,
    <<"gig_worker",
      <<"gig worker", "freelancer", "self-employed", "gig economy", "side hustle">> >> >>

min_chunk_chars == 150
min_cleaned_chars == 100
min_sentences == 2
max_response_sentences == 5
min_response_chars == 80
num_templates == 2
min_sentence_chars == 40
max_sentence_chars == 400

\* convert_rag_to_training.py:149-162 with re.DOTALL | re.IGNORECASE: the
\* literal a match starts with, in lowercase, and where the match ends: at
\* the next blank line or else the end of the text ("break_or_end"), at the
\* end of the text ("end"), at the next blank line, without which there is no
\* match ("break"), or after the next "Myra Athena" ("through")
skip_patterns == <<
    [start |-> "member employer corporate", kind |-> "break_or_end"],
    [start |-> "table of contents", kind |-> "break_or_end"],
    [start |-> "related reads", kind |-> "break_or_end"],
    [start |-> "terms & conditions", kind |-> "end"],
    [start |-> "privacy policy", kind |-> "end"],
    [start |-> "contact us", kind |-> "end"],
    [start |-> "disclaimer:", kind |-> "end"],
    [start |-> "housing\n", kind |-> "break"],
    [start |-> "account\n", kind |-> "break"],
    [start |-> "personal\nfinance\n", kind |-> "break"],
    [start |-> "epf\n", kind |-> "break"],
    [start |-> "en\n", kind |-> "through"] >>

\* the positions from i on where p stands in s
Occurrences(p, s, i) == {k \in i..Len(s) : PrefixAt(p, s, k)}

\* the end (the first position after it) of the match of pattern p that
\* starts at position i of the lowercased text, 0 when there is no match
match_end(low, i, p) ==
    LET from == i + Len(p.start)
        breaks == Occurrences("\n\n", low, from)
        names == Occurrences("myra athena", low, from)
    IN  IF ~PrefixAt(p.start, low, i) THEN 0
        ELSE IF p.kind = "end" THEN Len(low) + 1
        ELSE IF p.kind = "break_or_end"
             THEN IF breaks = {} THEN Len(low) + 1 ELSE First(breaks)
        ELSE IF p.kind = "break"
             THEN IF breaks = {} THEN 0 ELSE First(breaks)
        ELSE IF names = {} THEN 0 ELSE First(names) + Len("myra athena")

\* re.sub(pattern, "", text, flags=re.DOTALL | re.IGNORECASE)
RECURSIVE remove_pattern(_, _)
remove_pattern(text, p) ==
    LET low == Lower(text)
        starts == {i \in 1..Len(text) : match_end(low, i, p) # 0}
    IN  IF starts = {} THEN text
        ELSE SubSeq(text, 1, First(starts) - 1)
               \o remove_pattern(SubSeq(text, match_end(low, First(starts), p),
                                        Len(text)), p)

\* the for loop of convert_rag_to_training.py:164-165, from pattern k on
RECURSIVE remove_patterns(_, _)
remove_patterns(text, k) ==
    IF k > Len(skip_patterns) THEN text
    ELSE remove_patterns(remove_pattern(text, skip_patterns[k]), k + 1)

\* re.sub of c{n,} by new: each run of n or more c becomes new
RECURSIVE collapse_runs(_, _, _, _)
collapse_runs(text, c, n, new) ==
    LET starts == {i \in 1..Len(text) : PrefixAt(Rep(c, n), text, i)}
    IN  IF starts = {} THEN text
        ELSE LET i == First(starts)
                 after == {j \in (i + n)..(Len(text) + 1) : CharAt(text, j) # c}
             IN  SubSeq(text, 1, i - 1) \o new
                   \o collapse_runs(SubSeq(text, First(after), Len(text)), c, n, new)

\* convert_rag_to_training.py:146-171
clean_text(text) ==
    strip(collapse_runs(collapse_runs(remove_patterns(text, 1), "\n", 3, "\n\n"),
                        " ", 2, " "))

\* re.split(r'(?<=[.!?])\s+', text)
RECURSIVE split_sentences(_)
split_sentences(text) ==
    LET cuts == {i \in 2..Len(text) :
                    IsSpace(CharAt(text, i)) /\ CharAt(text, i - 1) \in {".", "!", "?"}}
    IN  IF cuts = {} THEN <<text>>
        ELSE LET i == First(cuts)
                 after == {j \in (i + 1)..(Len(text) + 1) : ~IsSpace(CharAt(text, j))}
             IN  <<SubSeq(text, 1, i - 1)>>
                   \o split_sentences(SubSeq(text, First(after), Len(text)))

skip_words == <<"Click here", "Read also", "Table of Contents", "Terms &",
                "Member Employer", "Related Reads", "Date:", "Myra Athena">>

\* sum(1 for c in s if c.isupper())
uppercase_count(s) ==
    Cardinality({i \in 1..Len(s) : \E k \in 1..26 : Upper[k] = CharAt(s, i)})

\* convert_rag_to_training.py:183-194 on a stripped sentence
good_sentence(s) ==
    /\ Len(s) >= min_sentence_chars
    /\ Len(s) <= max_sentence_chars
    /\ ~\E k \in 1..Len(skip_words) : Contains(skip_words[k], s)
    /\ ~(5 * uppercase_count(s) > 2 * Len(s))

\* convert_rag_to_training.py:174-197
extract_good_sentences(text) ==
    LET stripped == [i \in 1..Len(split_sentences(text)) |->
                        strip(split_sentences(text)[i])]
    IN  SelectSeq(stripped, good_sentence)

topic_score(text_lower, k) ==
    Cardinality({j \in 1..Len(TOPIC_KEYWORDS[k][2]) :
                    Contains(Lower(TOPIC_KEYWORDS[k][2][j]), text_lower)})

\* convert_rag_to_training.py:200-213: the first topic with the highest score
identify_topic(text) ==
    LET text_lower == Lower(text)
        scored == {k \in 1..Len(TOPIC_KEYWORDS) : topic_score(text_lower, k) > 0}
        best == {k \in scored :
                    \A j \in scored : topic_score(text_lower, j) <= topic_score(text_lower, k)}
    IN  IF scored = {} THEN "general" ELSE TOPIC_KEYWORDS[First(best)][1]

\* TOPIC_QA_TEMPLATES.get(topic, TOPIC_QA_TEMPLATES["general"])
templates_of(name) ==
    LET ks == {k \in 1..Len(TOPIC_QA_TEMPLATES) : TOPIC_QA_TEMPLATES[k][1] = name}
        gs == {k \in 1..Len(TOPIC_QA_TEMPLATES) : TOPIC_QA_TEMPLATES[k][1] = "general"}
    IN  TOPIC_QA_TEMPLATES[First(IF ks # {} THEN ks ELSE gs)][2]

\* the chunk is refused only below one character less
length_test_off_by_one(text) == text = None \/ text[1] = "" \/ Len(text[1]) < min_chunk_chars - 1

\* convert_rag_to_training.py:220: not text or len(text) < 150, text being
\* None when the chunk has no "text"
length_test(text) == text = None \/ text[1] = "" \/ Len(text[1]) < min_chunk_chars

\* a text of n characters that starts as body does
Fit(body, n) == SubSeq(body \o Rep(" and so on", 40), 1, n)

ChunkBodies ==
    { "Saving money every month helps you build an emergency fund for hard times. Start saving early so that your savings account can grow steadily each year. It is never too late",
      "Table of Contents Budget basics and how to track your spending every week. Debt and credit card repayment plans for young adults who borrow money. More",
      "SAVE MORE MONEY NOW AND PAY YOURSELF FIRST EVERY MONTH. BUILD AN EMERGENCY FUND BEFORE YOU INVEST IN ANYTHING ELSE AT ALL. DO IT NOW AND",
      "A budget  tells you where your income goes, so track your expenses weekly!\n\n\nRelated Reads on loans\n\nA credit card debt grows fast when repayment is late? Borrow less. Contact Us today" }

ChunkInputs ==
    {[text |-> None], [text |-> Some("")]}
    \cup {[text |-> Some(Fit(b, n))] : b \in ChunkBodies, n \in {1, 99, 149, 150, 151, 200}}

InitConvert ==
    /\ Idle
    /\ SourcesIdle
    /\ ChunkIdle
    /\ SaveIdle
    /\ SessionIdle
    /\ DatabaseIdle
    /\ RedundancyIdle
    /\ query = "hello"
    /\ rag_mode = "Strict"
    /\ db = StoreRetriever(<<>>)
    /\ chunk \in ChunkInputs
    /\ qa_filename = "budgeting_rule.jsonl"
    /\ qa_pc = "start"
    /\ cleaned_text = None
    /\ sentences = <<>>
    /\ topic = None
    /\ response_text = None
    /\ qa_pairs = None

\* create_qa_pairs_from_chunk returns pairs from the return statement at
\* convert_rag_to_training.py line `line`
qa_return(line, pairs) ==
    /\ qa_pairs' = Some(pairs)
    /\ qa_pc' = line

\* convert_rag_to_training.py:218-221
CheckChunkLength ==
    /\ qa_pc = "start"
    /\ IF length_test(chunk.text)
       THEN qa_return("return_221", <<>>)
       ELSE qa_pc' = "clean" /\ UNCHANGED qa_pairs
    /\ UNCHANGED <<chunk, qa_filename, cleaned_text, sentences, topic, response_text>>
    /\ UNCHANGED other_than_convert

\* convert_rag_to_training.py:224-226
CleanChunkText ==
    /\ qa_pc = "clean"
    /\ cleaned_text' = Some(clean_text(chunk.text[1]))
    /\ IF Len(cleaned_text'[1]) < min_cleaned_chars
       THEN qa_return("return_226", <<>>)
       ELSE qa_pc' = "sentences" /\ UNCHANGED qa_pairs
    /\ UNCHANGED <<chunk, qa_filename, sentences, topic, response_text>>
    /\ UNCHANGED other_than_convert

\* convert_rag_to_training.py:229-231
ExtractGoodSentences ==
    /\ qa_pc = "sentences"
    /\ sentences' = extract_good_sentences(cleaned_text[1])
    /\ IF Len(sentences') < min_sentences
       THEN qa_return("return_231", <<>>)
       ELSE qa_pc' = "response" /\ UNCHANGED qa_pairs
    /\ UNCHANGED <<chunk, qa_filename, cleaned_text, topic, response_text>>
    /\ UNCHANGED other_than_convert

\* convert_rag_to_training.py:234-247
BuildResponse ==
    /\ qa_pc = "response"
    /\ topic' = Some(identify_topic(cleaned_text[1]))
    /\ response_text' =
          Some(Join(" ", SubSeq(sentences, 1,
                                IF Len(sentences) < max_response_sentences
                                THEN Len(sentences) ELSE max_response_sentences)))
    /\ IF Len(response_text'[1]) < min_response_chars
       THEN qa_return("return_247", <<>>)
       ELSE qa_pc' = "sample" /\ UNCHANGED qa_pairs
    /\ UNCHANGED <<chunk, qa_filename, cleaned_text, sentences>>
    /\ UNCHANGED other_than_convert

\* convert_rag_to_training.py:250-263: random.sample draws num_to_use
\* templates, at distinct positions, in any order
SampleTemplates ==
    /\ qa_pc = "sample"
    /\ LET templates == templates_of(topic[1])
           num_to_use == IF Len(templates) < num_templates THEN Len(templates)
                         ELSE num_templates
       IN  \E selected \in {s \in [1..num_to_use -> 1..Len(templates)] :
                               \A i, j \in 1..num_to_use : i # j => s[i] # s[j]} :
              qa_return("return_263",
                        [i \in 1..num_to_use |->
                            [prompt |-> templates[selected[i]][1],
                             completion |-> IF templates[selected[i]][2] # None
                                            THEN templates[selected[i]][2][1]
                                            ELSE response_text[1],
                             topic |-> topic[1],
                             source |-> qa_filename]])
    /\ UNCHANGED <<chunk, qa_filename, cleaned_text, sentences, topic, response_text>>
    /\ UNCHANGED other_than_convert

NextConvert ==
    \/ CheckChunkLength
    \/ CleanChunkText
    \/ ExtractGoodSentences
    \/ BuildResponse
    \/ SampleTemplates

SpecConvert == InitConvert /\ [][NextConvert]_vars

(***************************************************************************)
(* Properties of create_qa_pairs_from_chunk                                *)
(***************************************************************************)
\* C18: a chunk whose text is missing, empty or shorter than 150 characters
\* gets no Q&A pair, whatever the text says; a text of exactly 150 characters
\* passes the length test.
C18_ShortChunkGivesNoPairs ==
    /\ (chunk.text = None \/ Len(chunk.text[1]) < 150) =>
          /\ qa_pairs \in {None, Some(<<>>)}
          /\ qa_pc \in {"start", "return_221"}
    /\ (chunk.text # None /\ Len(chunk.text[1]) = 150) => qa_pc # "return_221"

\* a text of 149 characters with two good sentences was refused for its length
C18_GoodTextOneCharacterShort ==
    /\ chunk.text # None
    /\ Len(chunk.text[1]) = 149
    /\ Len(extract_good_sentences(clean_text(chunk.text[1]))) >= 2
    /\ qa_pc = "return_221"
    /\ qa_pairs = Some(<<>>)

(***************************************************************************)
(* save_test_results, save_feedback and save_general_feedback              *)
(* (s_app.py:214-319), called by the script threads of the sessions.  A    *)
(* JSON document is written "{" members "}" with ";" between the members,  *)
(* a member key ":" value, a value a word or a list "[" records "]", and a *)
(* record "<" fields ">".  A file is its text, read whole and written at   *)
(* the writer's own position, which open(..., 'w') sets to 0 after         *)
(* truncating the file; the documents are smaller than the writer's        *)
(* buffer, so that the text reaches the file when the file is closed.  A   *)
(* record's text is as long as its fields make it.                         *)
(***************************************************************************)
\* the functions with the rating or test type they are called with
SaveCalls ==
    { [fn |-> "save_test_results", arg |-> "pre"],
      [fn |-> "save_feedback", arg |-> "helpful"],
      [fn |-> "save_feedback", arg |-> "not_helpful"],
      [fn |-> "save_general_feedback", arg |-> "good"] }

\* s_app.py:216, 251, 287
filename_of(fn) ==
    IF fn = "save_test_results" THEN "data/test_results.json"
    ELSE "data/user_feedback.json"

\* s_app.py:239, 275, 311
list_key_of(fn) == IF fn = "save_test_results" THEN "results" ELSE "feedback"

\* s_app.py:219-227, 254-263, 290-300, as the text json.dump writes for it
entry_text(user_id, timestamp, call) ==
    "<" \o user_id \o "," \o ToString(timestamp) \o ","
        \o (IF call.fn = "save_test_results" THEN "test"
            ELSE IF call.fn = "save_feedback" THEN "response" ELSE "general")
        \o "," \o call.arg \o ">"

WordValue(w) == [is_list |-> FALSE, items |-> <<>>, word |-> w]
ListValue(items) == [is_list |-> TRUE, items |-> items, word |-> ""]
DictDocument(members) == [is_dict |-> TRUE, members |-> members, items |-> <<>>]
ListDocument(items) == [is_dict |-> FALSE, members |-> <<>>, items |-> items]

value_text(v) == IF v.is_list THEN "[" \o Concat(v.items) \o "]" ELSE v.word

\* json.dump(all_data, f, ...)
document_text(d) ==
    IF d.is_dict
    THEN "{" \o Join(";", [i \in 1..Len(d.members) |->
                              d.members[i][1] \o ":" \o value_text(d.members[i][2])])
             \o "}"
    ELSE "[" \o Concat(d.items) \o "]"

\* s.split(c)
RECURSIVE split(_, _)
split(s, c) ==
    IF Occurrences(c, s, 1) = {} THEN <<s>>
    ELSE <<SubSeq(s, 1, First(Occurrences(c, s, 1)) - 1)>>
           \o split(SubSeq(s, First(Occurrences(c, s, 1)) + 1, Len(s)), c)

IsWord(s) == s # "" /\ \A i \in 1..Len(s) : IsWordChar(CharAt(s, i))

\* the records of the text of a list's inside, None when it is not a run of
\* records
RECURSIVE record_texts(_)
record_texts(s) ==
    IF s = "" THEN Some(<<>>)
    ELSE IF CharAt(s, 1) # "<" \/ Occurrences(">", s, 1) = {} THEN None
    ELSE LET j == First(Occurrences(">", s, 1))
             rest == record_texts(SubSeq(s, j + 1, Len(s)))
         IN  IF \E i \in 2..(j - 1) : CharAt(s, i) \in {"<", "{", "}", "[", "]", ";"}
             THEN None
             ELSE IF rest = None THEN None
             ELSE Some(<<SubSeq(s, 1, j)>> \o rest[1])

\* the value a member's text stands for, None when it stands for none
member_value(s) ==
    IF Len(s) >= 2 /\ CharAt(s, 1) = "[" /\ CharAt(s, Len(s)) = "]"
    THEN IF record_texts(SubSeq(s, 2, Len(s) - 1)) = None THEN None
         ELSE Some(ListValue(record_texts(SubSeq(s, 2, Len(s) - 1))[1]))
    ELSE IF IsWord(s) THEN Some(WordValue(s))
    ELSE None

\* the member key:value a text stands for
member_of(s) ==
    LET colons == Occurrences(":", s, 1)
        key == SubSeq(s, 1, First(colons) - 1)
        value == member_value(SubSeq(s, First(colons) + 1, Len(s)))
    IN  IF colons = {} THEN None
        ELSE IF ~IsWord(key) \/ value = None THEN None
        ELSE Some(<<key, value[1]>>)

\* json.load(f) on a text: the document, or None when it raises
json_load(text) ==
    LET inner == SubSeq(text, 2, Len(text) - 1)
        parts == IF inner = "" THEN <<>> ELSE split(inner, ";")
    IN  IF Len(text) < 2 THEN None
        ELSE IF CharAt(text, 1) = "[" /\ CharAt(text, Len(text)) = "]"
             THEN IF record_texts(inner) = None THEN None
                  ELSE Some(ListDocument(record_texts(inner)[1]))
        ELSE IF CharAt(text, 1) # "{" \/ CharAt(text, Len(text)) # "}" THEN None
        ELSE IF \E i \in 1..Len(parts) : member_of(parts[i]) = None THEN None
        ELSE IF \E i, j \in 1..Len(parts) : i < j /\ member_of(parts[i])[1][1] = member_of(parts[j])[1][1]
             THEN None
        ELSE Some(DictDocument([i \in 1..Len(parts) |-> member_of(parts[i])[1]]))

\* s_app.py:234, 270, 307
empty_document(fn) == DictDocument(<< <<list_key_of(fn), ListValue(<<>>)>> >>)

MissingFile == [exists |-> FALSE, text |-> ""]
File(text) == [exists |-> TRUE, text |-> text]

\* s_app.py:230-237: the document the save goes on with; the file is missing
\* or json.load raises: a document with an empty list
load_or_default(file, fn) ==
    IF ~file.exists \/ json_load(file.text) = None THEN Some(empty_document(fn))
    ELSE json_load(file.text)

\* s_app.py:239 raises: all_data is not a dict, has no such key, or the
\* value is not a list
append_raises(d, key) ==
    \/ ~d.is_dict
    \/ ~has_key(d.members, key)
    \/ ~get(d.members, key, WordValue("")).is_list

\* all_data[key].append(entry)
append_entry(d, key, entry) ==
    DictDocument(dict_set(d.members, key,
                          ListValue(Append(get(d.members, key, WordValue("")).items,
                                           entry))))

\* f.write(text) at position 0 of a file that holds old
write_at_start(old, text) == text \o SubSeq(old, Len(text) + 1, Len(old))

\* the records a text holds, in their order, whether or not the text is a
\* document
RECURSIVE StoredRecords(_)
StoredRecords(s) ==
    LET opens == Occurrences("<", s, 1)
        i == First(opens)
        closes == Occurrences(">", s, i)
        j == First(closes)
    IN  IF opens = {} THEN <<>>
        ELSE IF closes = {} THEN <<>>
        ELSE IF Occurrences("<", s, i + 1) # {} /\ First(Occurrences("<", s, i + 1)) < j
             THEN StoredRecords(SubSeq(s, i + 1, Len(s)))
        ELSE <<SubSeq(s, i, j)>> \o StoredRecords(SubSeq(s, j + 1, Len(s)))

MaxSaves == 2

FileNames == {"data/test_results.json", "data/user_feedback.json"}

\* the records earlier sessions stored
OldRecords(filename) ==
    IF filename = "data/test_results.json"
    THEN <<"<u0,0,test,pre>", "<u0,0,test,post>">>
    ELSE <<"<u0,0,response,not_helpful>", "<u0,0,general,poor>">>

ListKey(filename) == IF filename = "data/test_results.json" THEN "results" ELSE "feedback"

\* a document of the old records
OldDocument(filename) ==
    DictDocument(<< <<ListKey(filename), ListValue(OldRecords(filename))>> >>)

\* the states a save finds a file in: missing, documents with and without
\* records, documents json.load reads that are not what the save expects, and
\* texts json.load does not read: an empty file, a text cut short, and what two
\* overlapping writers left
PriorFiles(filename) ==
    { MissingFile,
      File(document_text(DictDocument(<< <<ListKey(filename), ListValue(<<>>)>> >>))),
      File(document_text(OldDocument(filename))),
      File(document_text(DictDocument(<< <<ListKey(filename), ListValue(OldRecords(filename))>>,
                                         <<"version", WordValue("1")>> >>))),
      File(document_text(DictDocument(<< <<"version", WordValue("1")>> >>))),
      File(document_text(DictDocument(<< <<ListKey(filename), WordValue("none")>> >>))),
      File(document_text(ListDocument(OldRecords(filename)))),
      File(""),
      File(SubSeq(document_text(OldDocument(filename)), 1,
                  Len(document_text(OldDocument(filename))) - 2)),
      File(write_at_start(document_text(OldDocument(filename)),
                          document_text(DictDocument(<< <<ListKey(filename),
                              ListValue(<<OldRecords(filename)[2]>>)>> >>)))) }

\* the states of the files on which two saves overlap: both hold the old
\* records, or the feedback file is missing and the results file is a document
\* without a list of results
SharedFiles ==
    { [f \in FileNames |-> File(document_text(OldDocument(f)))],
      [f \in FileNames |->
          IF f = "data/test_results.json"
          THEN File(document_text(DictDocument(<< <<"version", WordValue("1")>> >>)))
          ELSE MissingFile] }

SaveStart ==
    /\ save_pc = [p \in Savers |-> "idle"]
    /\ save_call = [p \in Savers |-> None]
    /\ result_data = [p \in Savers |-> None]
    /\ all_data = [p \in Savers |-> None]
    /\ found = [p \in Savers |-> None]
    /\ seen = [p \in Savers |-> None]
    /\ clock = 0
    /\ rewrites = [f \in FileNames |-> 0]
    /\ last_writer = [f \in FileNames |-> None]

\* saves one after the other: one file in any state, the other missing or
\* holding the old records
InitSaves ==
    /\ Idle
    /\ SourcesIdle
    /\ ChunkIdle
    /\ ConvertIdle
    /\ SessionIdle
    /\ DatabaseIdle
    /\ RedundancyIdle
    /\ query = "hello"
    /\ rag_mode = "Strict"
    /\ db = StoreRetriever(<<>>)
    /\ SaveStart
    /\ \E f \in FileNames : \E file \in PriorFiles(f) : \E other \in BOOLEAN :
          files = [g \in FileNames |->
                      IF g = f THEN file
                      ELSE IF other THEN File(document_text(OldDocument(g)))
                      ELSE MissingFile]

\* saves of two sessions at once
InitOverlap ==
    /\ Idle
    /\ SourcesIdle
    /\ ChunkIdle
    /\ ConvertIdle
    /\ SessionIdle
    /\ DatabaseIdle
    /\ RedundancyIdle
    /\ query = "hello"
    /\ rag_mode = "Strict"
    /\ db = StoreRetriever(<<>>)
    /\ SaveStart
    /\ files \in SharedFiles

\* s_app.py:214-227, 249-263, 285-300: a session calls a save function, which
\* builds its record
CallSave(p) ==
    /\ save_pc[p] = "idle"
    /\ clock < MaxSaves
    /\ UNCHANGED other_than_save
    /\ \E call \in SaveCalls :
          /\ save_call' = [save_call EXCEPT ![p] = Some(call)]
          /\ result_data' = [result_data EXCEPT ![p] = Some(entry_text(p, clock + 1, call))]
          /\ found' = [found EXCEPT ![p] = Some(files[filename_of(call.fn)])]
    /\ clock' = clock + 1
    /\ save_pc' = [save_pc EXCEPT ![p] = "load"]
    /\ UNCHANGED <<files, all_data, seen, rewrites, last_writer>>

\* a save called while no other save is under way
CallSaveAlone(p) ==
    /\ \A q \in Savers : save_pc[q] = "idle"
    /\ CallSave(p)

\* s_app.py:230-237, 266-273, 302-309
LoadFile(p) ==
    /\ save_pc[p] = "load"
    /\ UNCHANGED other_than_save
    /\ all_data' = [all_data EXCEPT ![p] =
                       load_or_default(files[filename_of(save_call[p][1].fn)],
                                       save_call[p][1].fn)]
    /\ seen' = [seen EXCEPT ![p] = Some(rewrites[filename_of(save_call[p][1].fn)])]
    /\ save_pc' = [save_pc EXCEPT ![p] = "append"]
    /\ UNCHANGED <<files, save_call, result_data, found, clock, rewrites, last_writer>>

\* s_app.py:239, 275, 311
AppendEntry(p) ==
    /\ save_pc[p] = "append"
    /\ ~append_raises(all_data[p][1], list_key_of(save_call[p][1].fn))
    /\ UNCHANGED other_than_save
    /\ all_data' = [all_data EXCEPT ![p] =
                       Some(append_entry(all_data[p][1], list_key_of(save_call[p][1].fn),
                                         result_data[p][1]))]
    /\ save_pc' = [save_pc EXCEPT ![p] = "open"]
    /\ UNCHANGED <<files, save_call, result_data, found, seen, clock, rewrites, last_writer>>

\* s_app.py:239 raises, 245-247; 275, 280-283; 311, 316-319: the error is
\* shown and the file is not written
AppendRaises(p) ==
    /\ save_pc[p] = "append"
    /\ append_raises(all_data[p][1], list_key_of(save_call[p][1].fn))
    /\ UNCHANGED other_than_save
    /\ save_pc' = [save_pc EXCEPT ![p] = "failed"]
    /\ UNCHANGED <<files, save_call, result_data, all_data, found, seen, clock, rewrites,
                   last_writer>>

\* s_app.py:241, 277, 313: open(filename, 'w') creates or empties the file
OpenFileForWriting(p) ==
    /\ save_pc[p] = "open"
    /\ UNCHANGED other_than_save
    /\ files' = [files EXCEPT ![filename_of(save_call[p][1].fn)] = File("")]
    /\ rewrites' = [rewrites EXCEPT ![filename_of(save_call[p][1].fn)] = @ + 1]
    /\ save_pc' = [save_pc EXCEPT ![p] = "dump"]
    /\ UNCHANGED <<save_call, result_data, all_data, found, seen, clock, last_writer>>

\* s_app.py:242, 278, 314 and the end of the with block: the text is written
\* at the start of the file as the file is closed
DumpAndClose(p) ==
    /\ save_pc[p] = "dump"
    /\ UNCHANGED other_than_save
    /\ files' = [files EXCEPT ![filename_of(save_call[p][1].fn)] =
                    File(write_at_start(@.text, document_text(all_data[p][1])))]
    /\ last_writer' = [last_writer EXCEPT ![filename_of(save_call[p][1].fn)] = Some(p)]
    /\ save_pc' = [save_pc EXCEPT ![p] = "saved"]
    /\ UNCHANGED <<save_call, result_data, all_data, found, seen, clock, rewrites>>

\* s_app.py:244, 247; 280, 283; 316, 319
ReturnFromSave(p) ==
    /\ save_pc[p] \in {"saved", "failed"}
    /\ UNCHANGED other_than_save
    /\ save_pc' = [save_pc EXCEPT ![p] = "idle"]
    /\ save_call' = [save_call EXCEPT ![p] = None]
    /\ result_data' = [result_data EXCEPT ![p] = None]
    /\ all_data' = [all_data EXCEPT ![p] = None]
    /\ found' = [found EXCEPT ![p] = None]
    /\ seen' = [seen EXCEPT ![p] = None]
    /\ UNCHANGED <<files, clock, rewrites, last_writer>>

NextSaves ==
    \E p \in Savers :
        \/ CallSaveAlone(p)
        \/ LoadFile(p)
        \/ AppendEntry(p)
        \/ AppendRaises(p)
        \/ OpenFileForWriting(p)
        \/ DumpAndClose(p)
        \/ ReturnFromSave(p)

SpecSaves == InitSaves /\ [][NextSaves]_vars

NextOverlap ==
    \E p \in Savers :
        \/ CallSave(p)
        \/ LoadFile(p)
        \/ AppendEntry(p)
        \/ AppendRaises(p)
        \/ OpenFileForWriting(p)
        \/ DumpAndClose(p)
        \/ ReturnFromSave(p)

SpecOverlap == InitOverlap /\ [][NextOverlap]_vars

\* the records the file of p's call holds, and held when the call began
RecordsNow(p) == StoredRecords(files[filename_of(save_call[p][1].fn)].text)
RecordsFound(p) == StoredRecords(found[p][1].text)

\* C19: in saves that follow one another, a save that has written the file
\* leaves the records the file held, unchanged and in their order, followed
\* by its own record, and a save that has ended has removed no record.
C19_SavesOnlyAppend ==
    \A p \in Savers :
        /\ save_pc[p] = "saved" => RecordsNow(p) = RecordsFound(p) \o <<result_data[p][1]>>
        /\ save_pc[p] = "failed" => RecordsNow(p) = RecordsFound(p)

\* the call of p and the call of q, on one file, both read the file before
\* either began to rewrite it, both wrote it, and q closed it last
BothReadThenWrote(p, q) ==
    /\ p # q
    /\ save_pc[p] = "saved" /\ save_pc[q] = "saved"
    /\ filename_of(save_call[p][1].fn) = filename_of(save_call[q][1].fn)
    /\ seen[p] = seen[q]
    /\ last_writer[filename_of(save_call[q][1].fn)] = Some(q)

\* C20: when two saves on one file both read it before either rewrites it,
\* the file ends as the document the later writer read with its record
\* appended, without the record of the earlier writer.
C20_LastWriterWins ==
    \A p, q \in Savers :
        BothReadThenWrote(p, q) =>
            /\ files[filename_of(save_call[q][1].fn)].text = document_text(all_data[q][1])
            /\ \A n \in 1..Len(RecordsNow(q)) : RecordsNow(q)[n] # result_data[p][1]

(***************************************************************************)
(* One browser session of the app (s_app.py:52-85, 957-983, 1050-1294,     *)
(* 1563-1658).  st.session_state is a record whose optional keys hold None *)
(* while they are absent.  The script runs from its top at every event of  *)
(* the user and at every st.rerun(); a button is true only in the run its  *)
(* click started.  A prompt is handled by the script's thread and the      *)
(* thread of the thinking animation.                                       *)
(***************************************************************************)
\* s_app.py:52-66: the session state of a new session
new_session(at) ==
    [ messages |-> <<>>,
      current_page |-> "welcome",
      pre_test_completed |-> FALSE,
      post_test_completed |-> FALSE,
      user_id |-> at,
      selected_model |-> "my-finetuned",
      resources_loaded |-> FALSE,
      rag_mode |-> None,
      pre_test_scores |-> None,
      post_test_scores |-> None,
      participant_info |-> None ]

\* the scores and the participant outlive the reset
reset_session_keeping_scores(s, at) ==
    [s EXCEPT !.messages = <<>>,
              !.current_page = "welcome",
              !.pre_test_completed = FALSE,
              !.post_test_completed = FALSE,
              !.user_id = at,
              !.selected_model = "my-finetuned",
              !.rag_mode = Some("Strict")]

\* s_app.py:69-85
reset_session(s, at) ==
    [s EXCEPT !.messages = <<>>,
              !.current_page = "welcome",
              !.pre_test_completed = FALSE,
              !.post_test_completed = FALSE,
              !.user_id = at,
              !.selected_model = "my-finetuned",
              !.rag_mode = Some("Strict"),
              !.pre_test_scores = None,
              !.post_test_scores = None,
              !.participant_info = None]

\* main imposes nothing
enforce_nothing(s) == s

\* s_app.py:1590-1592
enforce_defaults(s) ==
    [s EXCEPT !.selected_model = "my-finetuned", !.rag_mode = Some("Strict")]

\* the post-test may be submitted into the results without its flag
submit_assessment_without_flag(s, test_type, scores) ==
    IF test_type = "pre"
    THEN [s EXCEPT !.pre_test_completed = TRUE,
                   !.pre_test_scores = Some(scores),
                   !.current_page = "chatbot"]
    ELSE [s EXCEPT !.post_test_scores = Some(scores),
                   !.current_page = "results"]

\* s_app.py:1056-1063
submit_assessment(s, test_type, scores) ==
    IF test_type = "pre"
    THEN [s EXCEPT !.pre_test_completed = TRUE,
                   !.pre_test_scores = Some(scores),
                   !.current_page = "chatbot"]
    ELSE [s EXCEPT !.post_test_completed = TRUE,
                   !.post_test_scores = Some(scores),
                   !.current_page = "results"]

\* len(t.split())
RECURSIVE word_count(_)
word_count(t) ==
    IF strip(t) = "" THEN 0
    ELSE LET s == strip(t)
             ends == {i \in 1..Len(s) : IsSpace(CharAt(s, i))}
         IN  IF ends = {} THEN 1
             ELSE 1 + word_count(SubSeq(s, First(ends), Len(s)))

greetings ==
    <<"hi", "hello", "hey", "hiya", "good morning", "good afternoon", "good evening", "yo">>

\* s_app.py:941-950
is_greeting(text) ==
    IF text = "" THEN FALSE
    ELSE LET t == Lower(strip(text))
         IN  \/ \E g \in 1..Len(greetings) : t = greetings[g]
             \/ /\ word_count(t) <= 2
                /\ \E g \in 1..Len(greetings) : StartsWith(t, greetings[g])

\* s_app.py:1162-1166
greeting_response ==
    "Hello! I understand that a greeting means you'd like to start a conversation. "
    \o "As a financial literacy chatbot, I'm here to help with questions about budgeting, saving, investing, debt, retirement (EPF/KWSP), and other personal finance topics. "
    \o "How can I assist you today?"

\* s_app.py:1137
user_message(text) == [role |-> "user", content |-> text, rag_mode |-> ""]

\* s_app.py:1171-1178, 1272-1279; st.session_state.get('rag_mode', 'Hybrid')
assistant_message(s, content) ==
    [role |-> "assistant", content |-> content,
     rag_mode |-> IF s.rag_mode = None THEN "Hybrid" ELSE s.rag_mode[1]]

MaxMessages == 3
MaxResets == 1

Event(kind, text) == [kind |-> kind, text |-> text]

Prompts == {"hello", "How can I save money?"}

\* what run_rag_chain returns: the fragments the model streams, and whether
\* the stream raises after them
Streams ==
    { [fragments |-> <<>>, raises |-> TRUE],
      [fragments |-> <<"Save ">>, raises |-> TRUE],
      [fragments |-> <<"Save ", "first.">>, raises |-> FALSE] }

\* the widgets the page shown to the user offers
EventsOn(s) ==
    {Event("rerun", ""), Event("new_user", ""), Event("clear_chat", ""),
     Event("view_dashboard", "")}
    \cup (IF s.current_page \notin {"welcome", "admin"}
          THEN {Event("confirm_reset", "")} ELSE {})
    \cup (IF s.current_page = "welcome" THEN {Event("start_pre_test", "")} ELSE {})
    \cup (IF s.current_page \in {"pre_test", "post_test"} THEN {Event("submit", "")} ELSE {})
    \cup (IF s.current_page = "chatbot"
          THEN {Event("take_post_test", "")}
               \cup (IF Len(s.messages) + 2 <= MaxMessages
                     THEN {Event("prompt", p) : p \in Prompts} ELSE {})
          ELSE {})
    \cup (IF s.current_page = "results" THEN {Event("start_new_session", "")} ELSE {})
    \cup (IF s.current_page = "admin" THEN {Event("logout", "")} ELSE {})

\* no script run and no prompt handling is under way
HandlerIdle ==
    /\ at_prompt = None
    /\ full_response = ""
    /\ response_stream = None
    /\ handler_mode = None
    /\ rag_calls = 0
    /\ worker_pc = "none"
    /\ stop_animation = FALSE
    /\ thinking_placeholder = ""
    /\ message_placeholder = ""

InitSession ==
    /\ Idle
    /\ SourcesIdle
    /\ ChunkIdle
    /\ ConvertIdle
    /\ SaveIdle
    /\ DatabaseIdle
    /\ RedundancyIdle
    /\ query = "hello"
    /\ rag_mode = "Strict"
    /\ db = StoreRetriever(<<>>)
    /\ session = new_session(0)
    /\ event = Event("rerun", "")
    /\ page_pc = "main"
    /\ now = 0
    /\ HandlerIdle

handler_vars == <<at_prompt, full_response, response_stream, handler_mode, rag_calls,
                  worker_pc, stop_animation, thinking_placeholder, message_placeholder>>

\* the user acts on a widget of the page shown: the script runs again
StartRun ==
    /\ page_pc = "idle"
    /\ UNCHANGED other_than_session
    /\ \E e \in EventsOn(session) :
          /\ e.kind \in {"new_user", "start_new_session"} => now < MaxResets
          /\ event' = e
    /\ page_pc' = "main"
    /\ UNCHANGED <<session, now>>
    /\ UNCHANGED handler_vars

\* st.rerun() after the session state has become s
rerun(s) ==
    /\ session' = s
    /\ event' = Event("rerun", "")
    /\ page_pc' = "main"

\* s_app.py:1563-1644: main up to the end of the sidebar
RunMain ==
    /\ page_pc = "main"
    /\ UNCHANGED other_than_session
    /\ UNCHANGED handler_vars
    /\ \E loaded \in BOOLEAN :
          LET s == enforce_defaults([session EXCEPT !.resources_loaded = @ \/ loaded])
          IN  IF event.kind = "new_user" /\ s.current_page \in {"welcome", "admin"}
              THEN rerun(reset_session(s, now + 1)) /\ now' = now + 1
              ELSE IF event.kind = "view_dashboard"
              THEN rerun([s EXCEPT !.current_page = "admin"]) /\ UNCHANGED now
              ELSE IF event.kind = "clear_chat"
              THEN rerun([s EXCEPT !.messages = <<>>]) /\ UNCHANGED now
              ELSE /\ session' = s
                   /\ page_pc' = "page"
                   /\ UNCHANGED <<event, now>>

\* the script run ends
end_run ==
    /\ page_pc' = "idle"
    /\ event' = Event("rerun", "")

\* s_app.py:953-983
ShowWelcomePage ==
    /\ page_pc = "page"
    /\ session.current_page = "welcome"
    /\ UNCHANGED other_than_session
    /\ UNCHANGED handler_vars
    /\ UNCHANGED now
    /\ IF event.kind = "start_pre_test"
       THEN rerun([session EXCEPT !.current_page = "pre_test"])
       ELSE end_run /\ UNCHANGED session

\* s_app.py:985-1067
ShowPisaTest ==
    /\ page_pc = "page"
    /\ session.current_page \in {"pre_test", "post_test"}
    /\ UNCHANGED other_than_session
    /\ UNCHANGED handler_vars
    /\ UNCHANGED now
    /\ LET test_type == IF session.current_page = "pre_test" THEN "pre" ELSE "post"
           s == IF test_type = "pre"
                THEN [session EXCEPT !.participant_info = Some("participant")]
                ELSE session
       IN  IF event.kind = "submit"
           THEN rerun(submit_assessment(s, test_type, test_type \o " scores"))
           ELSE end_run /\ session' = s

\* s_app.py:1069-1137: the chat page up to the prompt
ShowChatbotPage ==
    /\ page_pc = "page"
    /\ session.current_page = "chatbot"
    /\ UNCHANGED other_than_session
    /\ UNCHANGED now
    /\ IF event.kind = "take_post_test"
       THEN /\ rerun([session EXCEPT !.current_page = "post_test"])
            /\ UNCHANGED handler_vars
       ELSE \E loaded \in BOOLEAN :
               IF loaded /\ event.kind = "prompt"
               THEN /\ session' = [session EXCEPT
                                      !.messages = Append(@, user_message(event.text))]
                    /\ at_prompt' = Some(session)
                    /\ page_pc' = "try"
                    /\ UNCHANGED <<event, full_response, response_stream, handler_mode,
                                   rag_calls, worker_pc, stop_animation,
                                   thinking_placeholder, message_placeholder>>
               ELSE end_run /\ UNCHANGED session /\ UNCHANGED handler_vars

\* s_app.py:1296-1409
ShowResultsPage ==
    /\ page_pc = "page"
    /\ session.current_page = "results"
    /\ UNCHANGED other_than_session
    /\ UNCHANGED handler_vars
    /\ IF event.kind = "start_new_session"
       THEN rerun(reset_session(session, now + 1)) /\ now' = now + 1
       ELSE end_run /\ UNCHANGED <<session, now>>

\* s_app.py:1413-1421
ShowAdminDashboard ==
    /\ page_pc = "page"
    /\ session.current_page = "admin"
    /\ UNCHANGED other_than_session
    /\ UNCHANGED handler_vars
    /\ UNCHANGED now
    /\ IF event.kind = "logout"
       THEN rerun([session EXCEPT !.current_page = "welcome"])
       ELSE end_run /\ UNCHANGED session

\* s_app.py:1158-1180: the greeting is answered without run_rag_chain
AnswerGreeting ==
    /\ page_pc = "try"
    /\ is_greeting(event.text)
    /\ UNCHANGED other_than_session
    /\ full_response' = greeting_response
    /\ message_placeholder' = greeting_response
    /\ session' = [session EXCEPT
                      !.messages = Append(@, assistant_message(session, greeting_response))]
    /\ stop_animation' = TRUE
    /\ page_pc' = "answered"
    /\ UNCHANGED <<event, now, at_prompt, response_stream, handler_mode, rag_calls,
                   worker_pc, thinking_placeholder>>

\* s_app.py:1182-1184
StartAnimation ==
    /\ page_pc = "try"
    /\ ~is_greeting(event.text)
    /\ UNCHANGED other_than_session
    /\ worker_pc' = "check"
    /\ page_pc' = "call"
    /\ UNCHANGED <<session, event, now, at_prompt, full_response, response_stream,
                   handler_mode, rag_calls, stop_animation, thinking_placeholder,
                   message_placeholder>>

\* s_app.py:1186-1188: run_rag_chain returns a stream or raises
CallRunRagChain ==
    /\ page_pc = "call"
    /\ UNCHANGED other_than_session
    /\ handler_mode' = IF session.rag_mode = None THEN Some("Hybrid") ELSE session.rag_mode
    /\ rag_calls' = rag_calls + 1
    /\ \/ page_pc' = "except" /\ UNCHANGED response_stream
       \/ \E stream \in Streams :
             /\ response_stream' = Some(stream)
             /\ page_pc' = "stop"
    /\ UNCHANGED <<session, event, now, at_prompt, full_response, worker_pc,
                   stop_animation, thinking_placeholder, message_placeholder>>

\* s_app.py:1191
StopAnimation ==
    /\ page_pc = "stop"
    /\ UNCHANGED other_than_session
    /\ stop_animation' = TRUE
    /\ page_pc' = "join"
    /\ UNCHANGED <<session, event, now, at_prompt, full_response, response_stream,
                   handler_mode, rag_calls, worker_pc, thinking_placeholder,
                   message_placeholder>>

\* the script goes on while the worker may still run
JoinAnimationWithoutWaiting ==
    /\ page_pc = "join"
    /\ UNCHANGED other_than_session
    /\ page_pc' = "stream"
    /\ UNCHANGED <<session, event, now>>
    /\ UNCHANGED handler_vars

\* s_app.py:1192: join returns when the worker has ended
JoinAnimation ==
    /\ page_pc = "join"
    /\ worker_pc = "terminated"
    /\ UNCHANGED other_than_session
    /\ page_pc' = "stream"
    /\ UNCHANGED <<session, event, now>>
    /\ UNCHANGED handler_vars

\* s_app.py:1201-1205: a fragment is shown, or the stream raises, or it ends
ConsumeStream ==
    /\ page_pc = "stream"
    /\ UNCHANGED other_than_session
    /\ LET stream == response_stream[1]
       IN  IF stream.fragments # <<>>
           THEN /\ full_response' = full_response \o Head(stream.fragments)
                /\ message_placeholder' = full_response' \o "|"
                /\ response_stream' = Some([stream EXCEPT !.fragments = Tail(@)])
                /\ UNCHANGED page_pc
           ELSE IF stream.raises
           THEN /\ page_pc' = "except"
                /\ UNCHANGED <<full_response, message_placeholder, response_stream>>
           ELSE /\ message_placeholder' = full_response
                /\ page_pc' = "append"
                /\ UNCHANGED <<full_response, response_stream>>
    /\ UNCHANGED <<session, event, now, at_prompt, handler_mode, rag_calls, worker_pc,
                   stop_animation, thinking_placeholder>>

\* s_app.py:1207-1279: the buttons and the sources are shown and the answer
\* joins the history
AppendAnswer ==
    /\ page_pc = "append"
    /\ UNCHANGED other_than_session
    /\ session' = [session EXCEPT
                      !.messages = Append(@, assistant_message(session, full_response))]
    /\ page_pc' = "answered"
    /\ UNCHANGED <<event, now>>
    /\ UNCHANGED handler_vars

\* s_app.py:1283-1285
HandleException ==
    /\ page_pc = "except"
    /\ UNCHANGED other_than_session
    /\ stop_animation' = TRUE
    /\ page_pc' = "except_join"
    /\ UNCHANGED <<session, event, now, at_prompt, full_response, response_stream,
                   handler_mode, rag_calls, worker_pc, thinking_placeholder,
                   message_placeholder>>

\* the error joins the history as an answer
ShowErrorInHistory ==
    /\ page_pc = "except_join"
    /\ worker_pc \in {"none", "terminated"}
    /\ UNCHANGED other_than_session
    /\ message_placeholder' = "Error"
    /\ session' = [session EXCEPT !.messages = Append(@, assistant_message(session, "Error"))]
    /\ page_pc' = "failed"
    /\ UNCHANGED <<event, now, at_prompt, full_response, response_stream,
                   handler_mode, rag_calls, worker_pc, stop_animation,
                   thinking_placeholder>>

\* s_app.py:1286-1294: the worker, if it was started, is joined and the
\* error is shown
ShowError ==
    /\ page_pc = "except_join"
    /\ worker_pc \in {"none", "terminated"}
    /\ UNCHANGED other_than_session
    /\ message_placeholder' = "Error"
    /\ page_pc' = "failed"
    /\ UNCHANGED <<session, event, now, at_prompt, full_response, response_stream,
                   handler_mode, rag_calls, worker_pc, stop_animation,
                   thinking_placeholder>>

\* show_chatbot_page returns and the script run ends
EndPrompt ==
    /\ page_pc \in {"answered", "failed"}
    /\ UNCHANGED other_than_session
    /\ end_run
    /\ at_prompt' = None
    /\ full_response' = ""
    /\ response_stream' = None
    /\ handler_mode' = None
    /\ rag_calls' = 0
    /\ worker_pc' = "none"
    /\ stop_animation' = FALSE
    /\ thinking_placeholder' = ""
    /\ message_placeholder' = ""
    /\ UNCHANGED <<session, now>>

\* s_app.py:1152-1155: the worker tests the flag, writes and sleeps
AnimateThinking ==
    /\ worker_pc = "check"
    /\ ~stop_animation
    /\ UNCHANGED other_than_session
    /\ thinking_placeholder' = "chatbot is thinking"
    /\ UNCHANGED <<session, event, page_pc, now, at_prompt, full_response,
                   response_stream, handler_mode, rag_calls, worker_pc, stop_animation,
                   message_placeholder>>

\* s_app.py:1152, 1156: the flag is set, the worker empties its placeholder
\* and ends
EndAnimation ==
    /\ worker_pc = "check"
    /\ stop_animation
    /\ UNCHANGED other_than_session
    /\ thinking_placeholder' = ""
    /\ worker_pc' = "terminated"
    /\ UNCHANGED <<session, event, page_pc, now, at_prompt, full_response,
                   response_stream, handler_mode, rag_calls, stop_animation,
                   message_placeholder>>

NextSession ==
    \/ StartRun
    \/ RunMain
    \/ ShowWelcomePage
    \/ ShowPisaTest
    \/ ShowChatbotPage
    \/ ShowResultsPage
    \/ ShowAdminDashboard
    \/ AnswerGreeting
    \/ StartAnimation
    \/ CallRunRagChain
    \/ StopAnimation
    \/ JoinAnimation
    \/ ConsumeStream
    \/ AppendAnswer
    \/ HandleException
    \/ ShowError
    \/ EndPrompt
    \/ AnimateThinking
    \/ EndAnimation

SpecSession == InitSession /\ [][NextSession]_vars

\* the threads are scheduled and the calls return
SpecSessionFair ==
    /\ SpecSession
    /\ WF_vars(CallRunRagChain) /\ WF_vars(StopAnimation) /\ WF_vars(JoinAnimation)
    /\ WF_vars(HandleException) /\ WF_vars(ShowError) /\ WF_vars(EndAnimation)

(***************************************************************************)
(* Further properties of run_rag_chain                                     *)
(***************************************************************************)
\* the lengths of the first n contents, added up
RECURSIVE CharsOf(_, _)
CharsOf(ds, n) ==
    IF n = 0 THEN 0 ELSE CharsOf(ds, n - 1) + Len(doc_content(ds[n])[1])

\* the non-empty documents that do not fit in what the ones before them left
Overflowing(ds) == {k \in 1..Len(ds) : CharsOf(ds, k) > max_chars}

\* C24: when the assembly is over and a non-empty document did not fit, the
\* parts are the contents of the documents before the first such document,
\* followed by its first max_chars - (chars so far) characters when that
\* remainder is more than 200 and by nothing when it is 200 or less; no
\* later document has a part.
C24_OverflowTruncatesOrDropsAndStops ==
    (pc \in {"join", "prompt", "done"} /\ Overflowing(NonEmptyDocs(docs[1])) # {}) =>
        LET ne == NonEmptyDocs(docs[1])
            k == First(Overflowing(ne))
            remainder == max_chars - CharsOf(ne, k - 1)
            whole == [i \in 1..(k - 1) |-> doc_content(ne[i])[1]]
        IN  /\ total_chars = CharsOf(ne, k - 1)
            /\ remainder > 200 =>
                  context_parts = Append(whole, SubSeq(doc_content(ne[k])[1], 1, remainder))
            /\ remainder <= 200 => context_parts = whole

\* a document leaves a remainder of exactly 200, the next one does not fit
\* and the one after it would
C24_RemainderOf200BeforeShortDocument ==
    /\ pc = "done"
    /\ Len(NonEmptyDocs(docs[1])) = 3
    /\ Len(doc_content(NonEmptyDocs(docs[1])[1])[1]) = 1300
    /\ Len(doc_content(NonEmptyDocs(docs[1])[2])[1]) > 200
    /\ Len(doc_content(NonEmptyDocs(docs[1])[3])[1]) = 100
    /\ Len(context_parts) = 1

(***************************************************************************)
(* Further properties of update_chunk_file                                 *)
(***************************************************************************)
\* C29: a pass of update_chunk_file returns False only before it has opened
\* the file for writing, and the file then is as the pass found it: a pass
\* that fails has not rewritten the file, not even in part.
C29_FailedPassLeavesFileAlone ==
    [][(Len(chunk_returns') = Len(chunk_returns) + 1
          /\ ~chunk_returns'[Len(chunk_returns')])
       => (chunk_pc \in {"idle", "read"} /\ chunk_file' = chunk_file)]_vars

\* a line update_chunk_file converts and writes
WellFormedLine(line) ==
    /\ ~line.blank
    /\ ~update_raises(line)
    /\ encodable(dumps(set_metadata(loads(line.text), chunk_name,
                                    find_article_info(chunk_name)[1])))

\* a line that is not valid JSON
MalformedLine(line) == ~line.blank /\ ~line.valid

\* C21 (update_chunk_file): in a file with a mapped name whose lines are
\* blank, well-formed or not valid JSON, a pass skips the lines that are not
\* valid JSON one by one: every well-formed line of the file the pass found
\* is in the file it leaves, converted.
C21_MalformedLineSkippedAlone ==
    \A n \in 2..Len(chunk_after) :
        (/\ find_article_info(chunk_name) # None
         /\ \A i \in 1..Len(chunk_after[n - 1]) :
               \/ chunk_after[n - 1][i].blank
               \/ MalformedLine(chunk_after[n - 1][i])
               \/ WellFormedLine(chunk_after[n - 1][i]))
        => \A i \in 1..Len(chunk_after[n - 1]) :
               WellFormedLine(chunk_after[n - 1][i]) =>
                   \E j \in 1..Len(chunk_after[n]) :
                       chunk_after[n][j].text
                           = dumps(set_metadata(loads(chunk_after[n - 1][i].text), chunk_name,
                                                find_article_info(chunk_name)[1]))

(***************************************************************************)
(* Properties of the session                                               *)
(***************************************************************************)
\* C22: when run_rag_chain or the stream has raised and the handler is at its
\* end, the worker, if it was started, is stopped and has ended, the session
\* state is what it was when the prompt came plus the user's message (no
\* answer in the history, page, flags, scores and model as they were), and
\* run_rag_chain was called once at most.
C22_FailureLeavesSessionUsable ==
    page_pc = "failed" =>
        /\ stop_animation
        /\ worker_pc \in {"none", "terminated"}
        /\ session = [at_prompt[1] EXCEPT !.messages = Append(@, user_message(event.text))]
        /\ rag_calls <= 1

\* a prompt is answered after an earlier prompt of the session failed
C22_AnsweredAfterFailure ==
    /\ page_pc = "answered"
    /\ Len(session.messages) = 3
    /\ session.messages[1].role = "user"
    /\ session.messages[2].role = "user"
    /\ session.messages[3].role = "assistant"
    /\ session.messages[3].content = "Save first."

\* C23: the mode handed to run_rag_chain is "Strict" and the model is
\* "my-finetuned" at every call, the session's mode is "Strict" all through
\* the handling of a prompt, and no message of the history records another
\* mode.
C23_ModeAlwaysStrict ==
    /\ handler_mode # None =>
          handler_mode = Some("Strict") /\ session.selected_model = "my-finetuned"
    /\ page_pc \notin {"idle", "main", "page"} => session.rag_mode = Some("Strict")
    /\ \A i \in 1..Len(session.messages) :
          session.messages[i].role = "assistant" => session.messages[i].rag_mode = "Strict"

\* run_rag_chain has been called in a session that was never reset
C23_CalledInFirstSession ==
    /\ rag_calls = 1
    /\ handler_mode # None
    /\ session.user_id = 0

\* C25: once the script consumes the stream the worker has ended, the worker
\* is not started for a greeting, and whenever the worker is started the stop
\* flag is set and the worker is joined in the end.
C25_WorkerStoppedAndJoined ==
    /\ [](page_pc \in {"stream", "append"} => worker_pc = "terminated")
    /\ []((page_pc = "answered" /\ is_greeting(event.text)) => worker_pc = "none")
    /\ (worker_pc = "check")
          ~> (stop_animation /\ worker_pc = "terminated" /\ page_pc \in {"stream", "failed"})

\* the worker has written, has ended, and a fragment has been consumed
C25_FragmentAfterWorkerEnded ==
    /\ page_pc = "stream"
    /\ full_response = "Save "
    /\ worker_pc = "terminated"
    /\ thinking_placeholder = ""

\* C27: the chat and the post-test are open only after the pre-test, the
\* results only after the post-test and with both scores, and the post-test
\* is completed only after the pre-test.
C27_PagesFollowTheOrder ==
    /\ session.current_page \in {"chatbot", "post_test"} => session.pre_test_completed
    /\ session.current_page = "results" =>
          /\ session.post_test_completed
          /\ session.pre_test_scores # None
          /\ session.post_test_scores # None
    /\ session.post_test_completed => session.pre_test_completed

\* the results are shown
C27_ResultsShown ==
    /\ page_pc = "idle"
    /\ session.current_page = "results"

\* C28: reset_session called in the session state gives an empty history,
\* the welcome page, both flags false, no scores, no participant, the model
\* "my-finetuned" and the mode "Strict", keeps resources_loaded, and a second
\* call changes nothing but the user id.
C28_ResetGivesFreshSession ==
    \A t1, t2 \in 0..(MaxResets + 1) :
        LET r == reset_session(session, t1)
        IN  /\ r.messages = <<>>
            /\ r.current_page = "welcome"
            /\ ~r.pre_test_completed /\ ~r.post_test_completed
            /\ r.pre_test_scores = None /\ r.post_test_scores = None
            /\ r.participant_info = None
            /\ r.selected_model = "my-finetuned"
            /\ r.rag_mode = Some("Strict")
            /\ r.resources_loaded = session.resources_loaded
            /\ r.user_id = t1
            /\ [reset_session(r, t2) EXCEPT !.user_id = t1] = r

\* reset_session has just been called on the results page
C28_ResetAfterResults ==
    /\ page_pc = "main"
    /\ session.user_id = 1
    /\ session = reset_session(session, 1)
    /\ session.resources_loaded

(***************************************************************************)
(* get_database (src/streamlit/mcp_finance_server.py:21-38): the module     *)
(* holds _db and _embeddings, None at first, and every tool that searches   *)
(* calls get_database.  The function takes no lock, so the calls of the     *)
(* callers of one process interleave statement by statement.                *)
(***************************************************************************)
MaxCalls == 3

\* the constructions of one kind so far
Built(kind) == {i \in 1..Len(built) : built[i].kind = kind}

InitDatabase ==
    /\ Idle
    /\ SourcesIdle
    /\ ChunkIdle
    /\ ConvertIdle
    /\ SaveIdle
    /\ SessionIdle
    /\ RedundancyIdle
    /\ query = "hello"
    /\ rag_mode = "Strict"
    /\ db = StoreRetriever(<<>>)
    /\ DatabaseIdle

\* a tool calls get_database
CallGetDatabase(t) ==
    /\ call_pc[t] = "idle"
    /\ calls < MaxCalls
    /\ UNCHANGED other_than_database
    /\ calls' = calls + 1
    /\ call_pc' = [call_pc EXCEPT ![t] = "test"]
    /\ UNCHANGED <<_db, _embeddings, built, returned>>

\* mcp_finance_server.py:28
TestDb(t) ==
    /\ call_pc[t] = "test"
    /\ UNCHANGED other_than_database
    /\ call_pc' = [call_pc EXCEPT ![t] = IF _db = None THEN "embeddings" ELSE "return"]
    /\ UNCHANGED <<_db, _embeddings, calls, built, returned>>

\* mcp_finance_server.py:29-30
BuildEmbeddings(t) ==
    /\ call_pc[t] = "embeddings"
    /\ UNCHANGED other_than_database
    /\ LET e == [kind |-> "embeddings", id |-> Cardinality(Built("embeddings")) + 1, by |-> t]
       IN  /\ built' = Append(built, e)
           /\ _embeddings' = Some(e)
    /\ call_pc' = [call_pc EXCEPT ![t] = "chroma"]
    /\ UNCHANGED <<_db, calls, returned>>

\* mcp_finance_server.py:31-36: the handle is made of the embeddings the
\* module holds at this moment
BuildChroma(t) ==
    /\ call_pc[t] = "chroma"
    /\ UNCHANGED other_than_database
    /\ LET h == [kind |-> "chroma", id |-> Cardinality(Built("chroma")) + 1, by |-> t,
                 embedding_function |-> _embeddings[1].id]
       IN  /\ built' = Append(built, h)
           /\ _db' = Some(h)
    /\ call_pc' = [call_pc EXCEPT ![t] = "count"]
    /\ UNCHANGED <<_embeddings, calls, returned>>

\* mcp_finance_server.py:32-36: Chroma raises (the directory cannot be
\* opened) and the call ends with the exception; _embeddings stays
ChromaRaises(t) ==
    /\ call_pc[t] = "chroma"
    /\ UNCHANGED other_than_database
    /\ call_pc' = [call_pc EXCEPT ![t] = "idle"]
    /\ UNCHANGED <<_db, _embeddings, calls, built, returned>>

\* mcp_finance_server.py:37
CountDocuments(t) ==
    /\ call_pc[t] = "count"
    /\ UNCHANGED other_than_database
    /\ call_pc' = [call_pc EXCEPT ![t] = "return"]
    /\ UNCHANGED <<_db, _embeddings, calls, built, returned>>

\* mcp_finance_server.py:38: the value of _db at the return
ReturnDb(t) ==
    /\ call_pc[t] = "return"
    /\ UNCHANGED other_than_database
    /\ returned' = Append(returned, [by |-> t, handle |-> _db[1].id])
    /\ call_pc' = [call_pc EXCEPT ![t] = "idle"]
    /\ UNCHANGED <<_db, _embeddings, calls, built>>

NextDatabase ==
    \E t \in Callers :
        \/ CallGetDatabase(t)
        \/ TestDb(t)
        \/ BuildEmbeddings(t)
        \/ BuildChroma(t)
        \/ ChromaRaises(t)
        \/ CountDocuments(t)
        \/ ReturnDb(t)

SpecDatabase == InitDatabase /\ [][NextDatabase]_vars

\* C26: the embedding model and the Chroma handle are constructed once at
\* most, and all the calls that returned have returned the same handle.
C26_BuiltOnceAndShared ==
    /\ Cardinality(Built("embeddings")) <= 1
    /\ Cardinality(Built("chroma")) <= 1
    /\ \A i, j \in 1..Len(returned) : returned[i].handle = returned[j].handle

(***************************************************************************)
(* process_jsonl_file (src/clean_redundancy.py:19-79): the records of a     *)
(* file are read, every record is compared with the one before it, the      *)
(* words its text repeats from the end of that one are removed, and the     *)
(* file is written again.  A record is [id, text], text None when the       *)
(* record has no 'text'.                                                    *)
(***************************************************************************)
boundary_chars == 200
find_slack == 50

MaxText == 3
MaxRecords == 2

\* s[a:b] for 0 <= a
Slice(s, a, b) ==
    IF a >= Len(s) \/ b <= a THEN ""
    ELSE SubSeq(s, a + 1, IF b < Len(s) THEN b ELSE Len(s))

\* s.split(): the runs of characters that are not whitespace
RECURSIVE split_words(_)
split_words(s) ==
    LET t == lstrip(s)
        ends == {i \in 1..Len(t) : IsSpace(CharAt(t, i))}
    IN  IF t = "" THEN <<>>
        ELSE IF ends = {} THEN <<t>>
        ELSE <<SubSeq(t, 1, First(ends) - 1)>> \o split_words(SubSeq(t, First(ends), Len(t)))

\* clean_redundancy.py:37
current_end_of(current_text) ==
    IF Len(current_text) > boundary_chars
    THEN SubSeq(current_text, Len(current_text) - boundary_chars + 1, Len(current_text))
    ELSE current_text

\* clean_redundancy.py:38
next_start_of(next_text) ==
    IF Len(next_text) > boundary_chars THEN SubSeq(next_text, 1, boundary_chars) ELSE next_text

\* clean_redundancy.py:45-55: the last j that matches is kept
overlap_len_of(current_words, next_words) ==
    LET n == IF Len(current_words) < Len(next_words) THEN Len(current_words) ELSE Len(next_words)
        matching == {j \in 1..n :
                        /\ current_words[Len(current_words) - j + 1] = next_words[1]
                        /\ \A k \in 1..(j - 1) :
                              current_words[Len(current_words) - (j - k) + 1] = next_words[k + 1]}
    IN  IF matching = {} THEN 0 ELSE CHOOSE j \in matching : \A o \in matching : o <= j

\* clean_redundancy.py:61-69: the new text, None when nothing is assigned
remove_overlap(next_text, overlap_text) ==
    IF StartsWith(next_text, overlap_text)
    THEN Some(lstrip(Slice(next_text, Len(overlap_text), Len(next_text))))
    ELSE LET at == {start_idx \in 0..(Len(next_text) - Len(overlap_text) - 1) :
                       Contains(overlap_text,
                                Slice(next_text, start_idx,
                                      start_idx + Len(overlap_text) + find_slack))}
         IN  IF at = {} THEN None
             ELSE LET start_idx == CHOOSE a \in at : \A b \in at : a <= b
                      end_idx == start_idx + Len(overlap_text)
                  IN  Some(strip(Slice(next_text, 0, start_idx)
                                   \o Slice(next_text, end_idx, Len(next_text))))

\* record.get('text', '')
text_of(record) == IF record.text = None THEN "" ELSE record.text[1]

\* clean_redundancy.py:31-69, one iteration: i is the place of the current
\* record in recs
check_pair(recs, i) ==
    LET current_text == text_of(recs[i])
        next_text == text_of(recs[i + 1])
        current_words == split_words(current_end_of(current_text))
        next_words == split_words(next_start_of(next_text))
        overlap_len == overlap_len_of(current_words, next_words)
        overlap_text == Join(" ", SubSeq(next_words, 1, overlap_len))
    IN  IF current_text # "" /\ next_text # "" /\ overlap_len > 0
           /\ remove_overlap(next_text, overlap_text) # None
        THEN [recs EXCEPT ![i + 1].text = remove_overlap(next_text, overlap_text)]
        ELSE recs

Chars == {"a", "b", " "}

RECURSIVE Texts(_)
Texts(n) == IF n = 0 THEN {""} ELSE Texts(n - 1) \cup {t \o c : t \in Texts(n - 1), c \in Chars}

\* the files: up to MaxRecords records, each without 'text' or with a text of
\* up to MaxText characters
JsonlFiles ==
    UNION {[1..n -> {None} \cup {Some(t) : t \in Texts(MaxText)}] : n \in 0..MaxRecords}

InitRedundancy ==
    /\ Idle
    /\ SourcesIdle
    /\ ChunkIdle
    /\ ConvertIdle
    /\ SaveIdle
    /\ SessionIdle
    /\ DatabaseIdle
    /\ query = "hello"
    /\ rag_mode = "Strict"
    /\ db = StoreRetriever(<<>>)
    /\ \E texts \in JsonlFiles :
          jsonl_file = [n \in 1..Len(texts) |-> [id |-> n, text |-> texts[n]]]
    /\ records = <<>>
    /\ records_read = <<>>
    /\ records_before = <<>>
    /\ record_i = 0
    /\ redundancy_pc = "read"

\* clean_redundancy.py:22-27
ReadRecords ==
    /\ redundancy_pc = "read"
    /\ UNCHANGED other_than_redundancy
    /\ records' = jsonl_file
    /\ records_read' = jsonl_file
    /\ records_before' = jsonl_file
    /\ record_i' = 0
    /\ redundancy_pc' = "pairs"
    /\ UNCHANGED jsonl_file

\* clean_redundancy.py:30-69, one iteration
CheckPair ==
    /\ redundancy_pc = "pairs"
    /\ record_i < Len(records) - 1
    /\ UNCHANGED other_than_redundancy
    /\ records_before' = records
    /\ records' = check_pair(records, record_i + 1)
    /\ record_i' = record_i + 1
    /\ UNCHANGED <<records_read, redundancy_pc, jsonl_file>>

\* clean_redundancy.py:30, 72-76: the loop is exhausted and the file written
WriteRecords ==
    /\ redundancy_pc = "pairs"
    /\ record_i >= Len(records) - 1
    /\ UNCHANGED other_than_redundancy
    /\ jsonl_file' = records
    /\ redundancy_pc' = "done"
    /\ UNCHANGED <<records, records_read, records_before, record_i>>

NextRedundancy == ReadRecords \/ CheckPair \/ WriteRecords

SpecRedundancy == InitRedundancy /\ [][NextRedundancy]_vars

\* the largest j for which the last j words of the end of the one text are
\* the first j words of the start of the other
DetectedOverlap(current_text, next_text) ==
    LET tail == split_words(current_end_of(current_text))
        head == split_words(next_start_of(next_text))
        js == {j \in 1..Len(head) :
                  j <= Len(tail) /\ SubSeq(tail, Len(tail) - j + 1, Len(tail)) = SubSeq(head, 1, j)}
    IN  IF js = {} THEN 0 ELSE CHOOSE j \in js : \A o \in js : o <= j

\* the text without its first j words and the whitespace around them
RECURSIVE WithoutLeadingWords(_, _)
WithoutLeadingWords(s, j) ==
    LET t == lstrip(s)
        ends == {i \in 1..Len(t) : IsSpace(CharAt(t, i))}
    IN  IF j = 0 THEN t
        ELSE IF ends = {} THEN ""
        ELSE WithoutLeadingWords(SubSeq(t, First(ends), Len(t)), j - 1)

\* C30: after every step the records are as many and in the order read, and
\* when the step found the last j words of the current record at the start
\* of the next one, the next record's text is its text before the step
\* without those j leading words (whitespace at its ends apart), and no longer.
C30_OverlapRemovedExactly ==
    (redundancy_pc \in {"pairs", "done"} /\ record_i >= 1) =>
        LET before == text_of(records_before[record_i + 1])
            after == text_of(records[record_i + 1])
            j == DetectedOverlap(text_of(records_before[record_i]), before)
        IN  /\ Len(records) = Len(records_read)
            /\ \A n \in 1..Len(records) : records[n].id = records_read[n].id
            /\ Len(after) <= Len(before)
            /\ (text_of(records_before[record_i]) # "" /\ before # "" /\ j > 0)
                  => strip(after) = strip(WithoutLeadingWords(before, j))

====
